---- MODULE Spec2Model ----
(***************************************************************************)
(* A model of the streaming-platform hub (simple/server.rs), of the        *)
(* client-side RPC call of MagicBall2 (proto.rs) and of the envelope       *)
(* helpers of sp-dto (lib.rs).                                             *)
(*                                                                         *)
(* Strings and byte buffers are sequences of byte values.  The JSON text   *)
(* of a meta record is modelled by a delimiter-separated serialisation     *)
(* with a real parser, so that decode(encode(m)) is computed, not assumed. *)
(***************************************************************************)
EXTENDS Integers, Sequences, FiniteSets, TLC

\* ------------------------------------------------------------------------
\* Bounds of the model
\* ------------------------------------------------------------------------

\* number of connections the listener accepts
MaxConns == 2

\* number of messages the connections receive in total
MaxFrames == 2

\* number of control messages posted by the holder of the link's sender clone
MaxLinkPosts == 1

\* ------------------------------------------------------------------------
\* Strings (as byte sequences)
\* ------------------------------------------------------------------------

\* "s1", "s2": addresses of services / hubs
S1 == <<115, 49>>
S2 == <<115, 50>>

\* "c": address of a UI component
C1 == <<99>>

\* "AppHub", the literal of server.rs:155
AppHub == <<65, 112, 112, 72, 117, 98>>

\* the n-th string produced by Uuid::new_v4().to_string(): "uuid-n"
UuidString(n) == <<117, 117, 105, 100, 45, 48 + n>>

\* Option<T>
None == <<>>
Some(x) == <<x>>

\* ------------------------------------------------------------------------
\* Meta records and their text encoding
\* ------------------------------------------------------------------------

\* the bytes of the text encoding that carry structure
Ch == [lbrace |-> 123, rbrace |-> 125, comma |-> 44, semi |-> 59, bar |-> 124,
       quote |-> 34, null |-> 110, component |-> 67, service |-> 83]

Component(addr, app_addr, client_addr) ==
    [tag |-> "Component", addr |-> addr, app_addr |-> app_addr, client_addr |-> client_addr]

Service(addr) == [tag |-> "Service", addr |-> addr]

RECURSIVE Split(_, _)
\* the pieces of s between occurrences of sep (one more piece than separators)
Split(s, sep) ==
    IF \A i \in 1..Len(s) : s[i] # sep
    THEN <<s>>
    ELSE LET k == CHOOSE i \in 1..Len(s) : s[i] = sep /\ \A j \in 1..(i - 1) : s[j] # sep
         IN <<SubSeq(s, 1, k - 1)>> \o Split(SubSeq(s, k + 1, Len(s)), sep)

RECURSIVE Flatten(_)
Flatten(ss) == IF ss = <<>> THEN <<>> ELSE Head(ss) \o Flatten(Tail(ss))

EncodeOption(o) == IF o = None THEN <<Ch.null>> ELSE <<Ch.quote>> \o o[1]

DecodeOption(s) ==
    IF s = <<Ch.null>> THEN [ok |-> TRUE, val |-> None]
    ELSE IF Len(s) >= 1 /\ s[1] = Ch.quote THEN [ok |-> TRUE, val |-> Some(Tail(s))]
    ELSE [ok |-> FALSE, val |-> None]

EncodeParticipator(p) ==
    IF p.tag = "Component"
    THEN <<Ch.component>> \o p.addr \o <<Ch.semi>> \o EncodeOption(p.app_addr)
                     \o <<Ch.semi>> \o EncodeOption(p.client_addr)
    ELSE <<Ch.service>> \o p.addr

DecodeParticipator(s) ==
    IF Len(s) >= 1 /\ s[1] = Ch.service
    THEN [ok |-> TRUE, val |-> Service(Tail(s))]
    ELSE IF Len(s) >= 1 /\ s[1] = Ch.component
    THEN LET parts == Split(Tail(s), Ch.semi)
         IN IF Len(parts) # 3 THEN [ok |-> FALSE, val |-> Service(<<>>)]
            ELSE LET a == DecodeOption(parts[2])
                     c == DecodeOption(parts[3])
                 IN IF a.ok /\ c.ok
                    THEN [ok |-> TRUE, val |-> Component(parts[1], a.val, c.val)]
                    ELSE [ok |-> FALSE, val |-> Service(<<>>)]
    ELSE [ok |-> FALSE, val |-> Service(<<>>)]

EncodePoints(ps) == Flatten([i \in 1..Len(ps) |-> <<Ch.bar>> \o EncodeParticipator(ps[i])])

DecodePoints(s) ==
    IF s = <<>> THEN [ok |-> TRUE, val |-> <<>>]
    ELSE IF s[1] # Ch.bar THEN [ok |-> FALSE, val |-> <<>>]
    ELSE LET parts == Split(Tail(s), Ch.bar)
             dec == [i \in 1..Len(parts) |-> DecodeParticipator(parts[i])]
         IN IF \A i \in 1..Len(parts) : dec[i].ok
            THEN [ok |-> TRUE, val |-> [i \in 1..Len(parts) |-> dec[i].val]]
            ELSE [ok |-> FALSE, val |-> <<>>]

\* The meta record the hub reads: tx, rx and source are the fields server.rs
\* touches; points is route.points; other stands for the remaining fields
\* (key, msg_type, correlation_id, payload_size, auth, attachments).
Meta(tx, rx, source, points, other) ==
    [tx |-> tx, rx |-> rx, source |-> source, points |-> points, other |-> other]

NoMeta == Meta(<<>>, <<>>, Service(<<>>), <<>>, <<>>)

\* serde_json::to_vec(&msg_meta)
EncodeMeta(m) ==
    <<Ch.lbrace>> \o m.tx \o <<Ch.comma>> \o m.rx \o <<Ch.comma>> \o EncodeParticipator(m.source)
               \o <<Ch.comma>> \o EncodePoints(m.points) \o <<Ch.comma>> \o m.other \o <<Ch.rbrace>>

\* serde_json::from_slice::<MsgMeta>(bytes)
DecodeMeta(bytes) ==
    LET n == Len(bytes)
    IN IF n < 2 \/ bytes[1] # Ch.lbrace \/ bytes[n] # Ch.rbrace
       THEN [ok |-> FALSE, val |-> NoMeta]
       ELSE LET f == Split(SubSeq(bytes, 2, n - 1), Ch.comma)
            IN IF Len(f) # 5
               THEN [ok |-> FALSE, val |-> NoMeta]
               ELSE LET src == DecodeParticipator(f[3])
                        pts == DecodePoints(f[4])
                    IN IF src.ok /\ pts.ok
                       THEN [ok |-> TRUE, val |-> Meta(f[1], f[2], src.val, pts.val, f[5])]
                       ELSE [ok |-> FALSE, val |-> NoMeta]

\* buf.put_u32_be(n as u32)
PutU32BE(n) ==
    <<(n \div 16777216) % 256, (n \div 65536) % 256, (n \div 256) % 256, n % 256>>

\* buf.get_u32_be() on a buffer of at least four bytes
GetU32BE(data) == data[1] * 16777216 + data[2] * 65536 + data[3] * 256 + data[4]

\* a frame as a client builds it: length prefix, meta, payload and attachments
EncodeFrame(m, body) == PutU32BE(Len(EncodeMeta(m))) \o EncodeMeta(m) \o body

\* ------------------------------------------------------------------------
\* Inputs of the hub
\* ------------------------------------------------------------------------

Conns == 1..MaxConns

\* What a handshake request carries.  cookie: "absent", "addr" (a cookie
\* named addr), "other" (a cookie of another name) or "unparsable";
\* value: the value of the cookie, if one was parsed (the clients send s1);
\* service, hub: the header value, if the header is present.
Handshake(cookie, service, hub) ==
    [cookie |-> cookie,
     value |-> IF cookie \in {"addr", "other"} THEN Some(S1) ELSE None,
     service |-> service, hub |-> hub]

Handshakes ==
    { Handshake("absent", None, None),
      Handshake("addr", None, None),
      Handshake("other", None, None),
      Handshake("absent", Some(S1), None),
      Handshake("absent", Some(S2), None),
      Handshake("absent", None, Some(S2)),
      Handshake("absent", Some(S1), Some(S2)),
      Handshake("addr", Some(S1), None) }

\* payload and attachment bytes of the frames the clients send
Body == <<80, 65, 66>>

OtherFields == <<107>>

\* the metas of the well-formed frames the clients send: one from a service
\* whose rx and first route point differ, one from a UI component
Metas ==
    { Meta(S1, S2, Service(S1), <<Service(S1)>>, OtherFields),
      Meta(C1, S2, Component(C1, None, None), <<Service(S2)>>, OtherFields) }

Binary(data) == [type |-> "Binary", data |-> data]
Text(data) == [type |-> "Text", data |-> data]

\* the messages a connection may receive: well-formed frames, a frame whose
\* length prefix (1000) exceeds the buffer, a frame whose meta is no meta
\* text, a buffer shorter than the length prefix, and a text message
Messages ==
    { Binary(EncodeFrame(m, Body)) : m \in Metas }
    \cup { Binary(<<0, 0, 3, 232, 123, 125>>),
           Binary(<<0, 0, 0, 2, 120, 121>> \o Body),
           Binary(<<0, 0>>),
           Text(EncodeFrame(Meta(S1, S2, Service(S1), <<Service(S2)>>, OtherFields), Body)) }

\* ------------------------------------------------------------------------
\* State of the hub
\* ------------------------------------------------------------------------

VARIABLES
    link,       \* TRUE iff the hub was started by start_with_link (link_magic_ball is Some)
    listener,   \* "running", or "panicked" once a handler has panicked
    conn,       \* per connection: the WsServer fields client_kind and addr, and its life cycle
    uuids,      \* number of UUIDs generated so far
    ctl,        \* every ServerMsg sent on the control channel, in order
    ctlHead,    \* number of control messages the clients thread has received
    clients,    \* the clients thread's HashMap: address -> sender
    wsOut,      \* every sender.send(data) of the clients thread, in order
    bridgeOut,  \* every magic_ball.send_data(buf), in order
    inbound,    \* every message handed to on_message, in order
    linkPosts   \* number of control messages posted through the link's sender clone

hubVars == <<link, listener, conn, uuids, ctl, ctlHead, clients, wsOut, bridgeOut,
             inbound, linkPosts>>

\* ServerMsg (proto.rs).  by and frame record where a message came from: the
\* connection whose handler sent it (0: not a connection handler) and the
\* index in inbound of the message being handled (0: none).
AddClient(addr, sender) ==
    [kind |-> "AddClient", addr |-> addr, sender |-> sender, data |-> <<>>,
     by |-> sender, frame |-> 0]

RemoveClient(addr, by) ==
    [kind |-> "RemoveClient", addr |-> addr, sender |-> 0, data |-> <<>>,
     by |-> by, frame |-> 0]

SendMsg(addr, data, by, frame) ==
    [kind |-> "SendMsg", addr |-> addr, sender |-> 0, data |-> data,
     by |-> by, frame |-> frame]

\* (mutant) the channel hands out the newest waiting message first
Enqueue_Front(ch, msgs) ==
    SubSeq(ch, 1, ctlHead) \o msgs \o SubSeq(ch, ctlHead + 1, Len(ch))

\* tx.send on the control channel: an unbounded channel that hands messages
\* out in the order they were sent
Enqueue(ch, msgs) == ch \o msgs

\* WsServer as built by the factory closure of start / start_with_link
\* hs records the request of the connection's handshake
NewWsServer ==
    [st |-> "idle", client_kind |-> None, addr |-> None, hs |-> Handshake("absent", None, None)]

HubInit ==
    /\ link \in BOOLEAN
    /\ listener = "running"
    /\ conn = [c \in Conns |-> NewWsServer]
    /\ uuids = 0
    /\ ctl = <<>>
    /\ ctlHead = 0
    /\ clients = <<>>
    /\ wsOut = <<>>
    /\ bridgeOut = <<>>
    /\ inbound = <<>>
    /\ linkPosts = 0

\* ------------------------------------------------------------------------
\* WsServer::on_open
\* ------------------------------------------------------------------------

\* (mutant) the App's address is the value of its cookie
OpenCookie_UsesValue(self, c, hs) ==
    IF hs.cookie = "addr"
    THEN [client_kind |-> Some("App"), addr |-> hs.value,
          out |-> <<AddClient(hs.value[1], c)>>, uuids |-> uuids]
    ELSE [client_kind |-> self.client_kind, addr |-> self.addr, out |-> <<>>, uuids |-> uuids]

\* the Cookie header: a cookie named addr makes the connection an App with a
\* fresh UUID as address
OpenCookie(self, c, hs) ==
    IF hs.cookie = "addr"
    THEN [client_kind |-> Some("App"), addr |-> Some(UuidString(uuids + 1)),
          out |-> <<AddClient(UuidString(uuids + 1), c)>>, uuids |-> uuids + 1]
    ELSE [client_kind |-> self.client_kind, addr |-> self.addr, out |-> <<>>, uuids |-> uuids]

\* (mutant) the Service header sets the role and the address and posts nothing
OpenService_NoAdd(s, c, hs) ==
    IF hs.service # None
    THEN [s EXCEPT !.client_kind = Some("Service"), !.addr = hs.service]
    ELSE s

\* the Service header, lines 68-81
OpenService(s, c, hs) ==
    IF hs.service # None
    THEN [s EXCEPT !.client_kind = Some("Service"), !.addr = hs.service,
                   !.out = s.out \o <<AddClient(hs.service[1], c)>>]
    ELSE s

OpenHub(s, c, hs) ==
    IF hs.hub # None
    THEN [s EXCEPT !.client_kind = Some("Hub"), !.addr = hs.hub,
                   !.out = s.out \o <<AddClient(hs.hub[1], c)>>]
    ELSE s

\* (mutant) the Cookie arm does not return
OpenResult_NoEarlyReturn(self, c, hs) ==
    OpenHub(OpenService(OpenCookie(self, c, hs), c, hs), c, hs)

\* the headers in the order of the code; a Cookie header returns before the
\* Service and Hub headers are looked at
OpenResult(self, c, hs) ==
    IF hs.cookie # "absent"
    THEN OpenCookie(self, c, hs)
    ELSE OpenHub(OpenService(OpenCookie(self, c, hs), c, hs), c, hs)

\* connections are numbered in the order the listener accepts them
OnOpen(c, hs) ==
    /\ listener = "running"
    /\ conn[c].st = "idle"
    /\ \A d \in Conns : d < c => conn[d].st # "idle"
    /\ LET r == OpenResult(conn[c], c, hs)
       IN /\ conn' = [conn EXCEPT ![c] = [st |-> "open", client_kind |-> r.client_kind,
                                          addr |-> r.addr, hs |-> hs]]
          /\ uuids' = r.uuids
          /\ ctl' = Enqueue(ctl, r.out)
    /\ UNCHANGED <<link, listener, ctlHead, clients, wsOut, bridgeOut, inbound, linkPosts>>

\* ------------------------------------------------------------------------
\* WsServer::on_message
\* ------------------------------------------------------------------------

\* what a handler run yields: its result ("Ok", "Err", or "Panic"), the
\* control messages it sent and the buffers it sent up the bridge
Outcome(res, out, up) == [res |-> res, out |-> out, up |-> up]

\* (mutant) the source is forwarded as received
RewriteMeta_SourceKept(msg_meta, addr) == [msg_meta EXCEPT !.tx = AppHub]

\* (mutant) the fields the hub does not read are forwarded empty
RewriteMeta_ClearsOther(msg_meta, addr) ==
    [msg_meta EXCEPT !.tx = AppHub,
                     !.source = IF @.tag = "Component"
                                THEN [@ EXCEPT !.client_addr = Some(addr)]
                                ELSE @,
                     !.other = <<>>]

\* App branch, lines 155-162: tx becomes the hub name, a Component source gets
\* the connection's address as client_addr
RewriteMeta(msg_meta, addr) ==
    [msg_meta EXCEPT !.tx = AppHub,
                     !.source = IF @.tag = "Component"
                                THEN [@ EXCEPT !.client_addr = Some(addr)]
                                ELSE @]

\* (mutant) the received length prefix is reused for the new meta
TunnelBuffer_OldPrefix(msg_meta, data, len) ==
    PutU32BE(len) \o EncodeMeta(msg_meta) \o SubSeq(data, 4 + len + 1, Len(data))

\* App branch, lines 164-173: the new length prefix, the re-encoded meta, then
\* what followed the meta in the received buffer
TunnelBuffer(msg_meta, data, len) ==
    LET bytes == EncodeMeta(msg_meta)
        payload_with_attachments == SubSeq(data, 4 + len + 1, Len(data))
    IN PutU32BE(Len(bytes)) \o bytes \o payload_with_attachments

\* (mutant) the App branch falls through into the peer branch
OnAppFrame_AlsoRouted(msg_meta, data, len, addr, k) ==
    IF link
    THEN Outcome("Ok", <<SendMsg(msg_meta.rx, data, 0, k)>>,
                 <<[data |-> TunnelBuffer(RewriteMeta(msg_meta, addr), data, len), frame |-> k]>>)
    ELSE Outcome("Ok", <<SendMsg(msg_meta.rx, data, 0, k)>>, <<>>)

\* (mutant) without a bridge the App branch routes the frame like a peer's
OnAppFrame_RoutedWithoutLink(msg_meta, data, len, addr, k) ==
    IF link
    THEN Outcome("Ok", <<>>,
                 <<[data |-> TunnelBuffer(RewriteMeta(msg_meta, addr), data, len), frame |-> k]>>)
    ELSE Outcome("Ok", <<SendMsg(msg_meta.rx, data, 0, k)>>, <<>>)

\* lines 152-185
OnAppFrame(msg_meta, data, len, addr, k) ==
    IF link
    THEN Outcome("Ok", <<>>,
                 <<[data |-> TunnelBuffer(RewriteMeta(msg_meta, addr), data, len), frame |-> k]>>)
    ELSE Outcome("Ok", <<>>, <<>>)

\* (mutant) the peer branch addresses the frame to its first route point
OnPeerFrame_FirstPoint(msg_meta, data, c, k) ==
    Outcome("Ok",
            <<SendMsg(IF msg_meta.points # <<>> THEN msg_meta.points[1].addr ELSE msg_meta.rx,
                      data, c, k)>>,
            <<>>)

\* (mutant) the peer branch forwards the buffer without its length prefix
OnPeerFrame_Stripped(msg_meta, data, c, k) ==
    Outcome("Ok", <<SendMsg(msg_meta.rx, SubSeq(data, 5, Len(data)), c, k)>>, <<>>)

\* Service | Hub branch, lines 186-188
OnPeerFrame(msg_meta, data, c, k) ==
    Outcome("Ok", <<SendMsg(msg_meta.rx, data, c, k)>>, <<>>)

\* (mutant) a length prefix that exceeds the buffer is logged and the frame dropped
OnBinary_TruncatedDropped(client_kind, addr, data, c, k) ==
    IF Len(data) < 4
    THEN Outcome("Panic", <<>>, <<>>)
    ELSE LET len == GetU32BE(data)
         IN IF len > Len(data) - 4
            THEN Outcome("Ok", <<>>, <<>>)
            ELSE LET res == DecodeMeta(SubSeq(data, 5, len + 4))
                 IN IF ~res.ok
                    THEN Outcome("Ok", <<>>, <<>>)
                    ELSE IF client_kind = "App"
                    THEN OnAppFrame(res.val, data, len, addr, k)
                    ELSE OnPeerFrame(res.val, data, c, k)

\* (mutant) a meta that does not decode is an error like a bad length prefix
OnBinary_BadMetaIsError(client_kind, addr, data, c, k) ==
    IF Len(data) < 4
    THEN Outcome("Panic", <<>>, <<>>)
    ELSE LET len == GetU32BE(data)
         IN IF len > Len(data) - 4
            THEN Outcome("Err", <<>>, <<>>)
            ELSE LET res == DecodeMeta(SubSeq(data, 5, len + 4))
                 IN IF ~res.ok
                    THEN Outcome("Err", <<>>, <<>>)
                    ELSE IF client_kind = "App"
                    THEN OnAppFrame(res.val, data, len, addr, k)
                    ELSE OnPeerFrame(res.val, data, c, k)

\* lines 134-194, for a binary message of a connection with addr and client_kind
OnBinary(client_kind, addr, data, c, k) ==
    IF Len(data) < 4
    THEN Outcome("Panic", <<>>, <<>>)
    ELSE LET len == GetU32BE(data)
         IN IF len > Len(data) - 4
            THEN Outcome("Err", <<>>, <<>>)
            ELSE LET res == DecodeMeta(SubSeq(data, 5, len + 4))
                 IN IF ~res.ok
                    THEN Outcome("Ok", <<>>, <<>>)
                    ELSE IF client_kind = "App"
                    THEN OnAppFrame(res.val, data, len, addr, k)
                    ELSE OnPeerFrame(res.val, data, c, k)

\* (mutant) a connection without address is served like a Service
HandleMessage_NoAddrCheck(self, msg, c, k) ==
    IF msg.type = "Text"
    THEN Outcome("Ok", <<>>, <<>>)
    ELSE OnBinary("Service", <<>>, msg.data, c, k)

\* (mutant) a text message is parsed like a binary one
HandleMessage_TextAsBinary(self, msg, c, k) ==
    IF self.addr = None
    THEN Outcome("Ok", <<>>, <<>>)
    ELSE IF self.client_kind = None
    THEN Outcome("Ok", <<>>, <<>>)
    ELSE OnBinary(self.client_kind[1], self.addr[1], msg.data, c, k)

\* lines 126-208
HandleMessage(self, msg, c, k) ==
    IF self.addr = None
    THEN Outcome("Ok", <<>>, <<>>)
    ELSE IF self.client_kind = None
    THEN Outcome("Ok", <<>>, <<>>)
    ELSE IF msg.type = "Text"
    THEN Outcome("Ok", <<>>, <<>>)
    ELSE OnBinary(self.client_kind[1], self.addr[1], msg.data, c, k)

\* (mutant) a message admits a connection that has no address
ConnAfter_AdmitsOnMessage(c, res) ==
    IF res = "Err" THEN [conn EXCEPT ![c].st = "failed"]
    ELSE [conn EXCEPT ![c].client_kind = IF conn[c].addr = None THEN Some("Service") ELSE @,
                      ![c].addr = IF @ = None THEN Some(S1) ELSE @]

\* (mutant) the engine keeps a connection whose handler returned Err
ConnAfter_KeepOpen(c, res) == conn

\* the connections after on_message of connection c has returned res: an Err
\* result (lines 140-141) makes the WebSocket engine tear the connection down
ConnAfter(c, res) ==
    IF res = "Err" THEN [conn EXCEPT ![c].st = "failed"] ELSE conn

\* A panic unwinds the listener, which runs every handler.
OnMessage(c, msg) ==
    /\ listener = "running"
    /\ conn[c].st = "open"
    /\ Len(inbound) < MaxFrames
    /\ LET k == Len(inbound) + 1
           r == HandleMessage(conn[c], msg, c, k)
       IN /\ inbound' = Append(inbound, [conn |-> c, msg |-> msg])
          /\ ctl' = Enqueue(ctl, r.out)
          /\ bridgeOut' = bridgeOut \o r.up
          /\ conn' = ConnAfter(c, r.res)
          /\ listener' = IF r.res = "Panic" THEN "panicked" ELSE listener
    /\ UNCHANGED <<link, uuids, ctlHead, clients, wsOut, linkPosts>>

\* ------------------------------------------------------------------------
\* WsServer::on_close
\* ------------------------------------------------------------------------

\* lines 211-225: every arm of the match is empty
CloseResult(self, c) == <<>>

OnClose(c) ==
    /\ listener = "running"
    /\ conn[c].st = "open"
    /\ conn' = [conn EXCEPT ![c].st = "closed"]
    /\ ctl' = Enqueue(ctl, CloseResult(conn[c], c))
    /\ UNCHANGED <<link, listener, uuids, ctlHead, clients, wsOut, bridgeOut, inbound,
                   linkPosts>>

\* ------------------------------------------------------------------------
\* The clients thread of start / start_with_link
\* ------------------------------------------------------------------------

\* (mutant) an address that is in the table keeps its sender
Insert_KeepFirst(table, addr, sender) ==
    [a \in (DOMAIN table) \cup {addr} |-> IF a \in DOMAIN table THEN table[a] ELSE sender]

\* clients.insert(addr, sender)
Insert(table, addr, sender) ==
    [a \in (DOMAIN table) \cup {addr} |-> IF a = addr THEN sender ELSE table[a]]

\* (mutant) a SendMsg takes the destination's entry out of the table
TableAfter_TakeOnSend(table, msg) ==
    IF msg.kind = "AddClient" THEN Insert(table, msg.addr, msg.sender)
    ELSE IF msg.kind = "SendMsg"
    THEN [a \in (DOMAIN table) \ {msg.addr} |-> table[a]]
    ELSE table

\* the table after one control message: only AddClient has an arm that
\* touches it; RemoveClient falls into `_ => {}`
TableAfter(table, msg) ==
    IF msg.kind = "AddClient" THEN Insert(table, msg.addr, msg.sender) ELSE table

\* (mutant) a frame for an unknown address bounces to the connection it came from
SendsOf_Bounce(table, msg, i) ==
    IF msg.kind = "SendMsg" /\ msg.addr \in DOMAIN table
    THEN <<[to |-> table[msg.addr], data |-> msg.data, ctlIdx |-> i]>>
    ELSE IF msg.kind = "SendMsg"
    THEN <<[to |-> msg.by, data |-> msg.data, ctlIdx |-> i]>>
    ELSE <<>>

\* the sends of one control message: SendMsg with clients.get(&addr) = Some(sender)
SendsOf(table, msg, i) ==
    IF msg.kind = "SendMsg" /\ msg.addr \in DOMAIN table
    THEN <<[to |-> table[msg.addr], data |-> msg.data, ctlIdx |-> i]>>
    ELSE <<>>

\* (mutant) the thread ends at a SendMsg whose address is not in the table
ClientsThread_StopsOnMiss ==
    /\ ctlHead < Len(ctl)
    /\ LET msg == ctl[ctlHead + 1]
       IN /\ ~(msg.kind = "SendMsg" /\ msg.addr \notin DOMAIN clients)
          /\ clients' = TableAfter(clients, msg)
          /\ wsOut' = wsOut \o SendsOf(clients, msg, ctlHead + 1)
    /\ ctlHead' = ctlHead + 1
    /\ UNCHANGED <<link, listener, conn, uuids, ctl, bridgeOut, inbound, linkPosts>>

\* one turn of the loop: rx.recv() and the match
ClientsThread ==
    /\ ctlHead < Len(ctl)
    /\ LET msg == ctl[ctlHead + 1]
       IN /\ clients' = TableAfter(clients, msg)
          /\ wsOut' = wsOut \o SendsOf(clients, msg, ctlHead + 1)
    /\ ctlHead' = ctlHead + 1
    /\ UNCHANGED <<link, listener, conn, uuids, ctl, bridgeOut, inbound, linkPosts>>

\* ------------------------------------------------------------------------
\* The other holder of the control channel's sender
\* ------------------------------------------------------------------------

\* start_with_link hands a clone of tx to the link client; the channel is
\* multi-producer and carries RemoveClient(addr) as well
LinkPost(addr) ==
    /\ link
    /\ linkPosts < MaxLinkPosts
    /\ linkPosts' = linkPosts + 1
    /\ ctl' = Enqueue(ctl, <<RemoveClient(addr, 0)>>)
    /\ UNCHANGED <<link, listener, conn, uuids, ctlHead, clients, wsOut, bridgeOut, inbound>>

\* ------------------------------------------------------------------------
\* The client handle MagicBall2 (proto.rs) and its RPC call
\* ------------------------------------------------------------------------

\* number of threads holding a clone of the handle
MaxCallers == 2

\* number of rpc calls started in total
MaxRpcs == 2

\* number of messages that arrive from the hub in total
MaxArrivals == 2

\* number of recv calls in total
MaxRecvs == 2

Callers == 1..MaxCallers

\* the address of the client and of the service it talks to
ClientAddr == S1
PeerAddr == S2

\* MsgMeta of proto.rs
ProtoMeta(tx, rx, correlation_id) == [tx |-> tx, rx |-> rx, correlation_id |-> correlation_id]

\* serde_json::to_vec(&msg_meta) for the MsgMeta of proto.rs
EncodeProtoMeta(m) ==
    <<Ch.lbrace>> \o m.tx \o <<Ch.comma>> \o m.rx \o <<Ch.comma>>
                  \o EncodeOption(m.correlation_id) \o <<Ch.rbrace>>

\* the buffer rpc and send build: length prefix, meta, payload
ProtoFrame(m, payload) ==
    PutU32BE(Len(EncodeProtoMeta(m))) \o EncodeProtoMeta(m) \o payload

\* an item of the incoming channel: (MsgMeta, usize, Vec<u8>)
Incoming(m, payload) ==
    [msg_meta |-> m, len |-> Len(EncodeProtoMeta(m)), data |-> ProtoFrame(m, payload)]

\* ClientMsg (proto.rs); the reply sender of AddRpc is named by the calling thread
AddRpc(id, t) == [kind |-> "AddRpc", id |-> id, reply |-> t]
RemoveRpc(id) == [kind |-> "RemoveRpc", id |-> id, reply |-> 0]

VARIABLES
    pc,         \* per thread: "idle", or where it is in rpc ("added", "sent")
    callId,     \* per thread: the correlation id of the rpc call it is in
    nIds,       \* number of correlation ids generated so far
    rpcCtl,     \* every ClientMsg sent on rpc_tx, in order
    rpcCtlHead, \* number of ClientMsg the reader has received
    pending,    \* the reader's table: correlation id -> reply sender
    replyCh,    \* per thread: the private channel (rpc_tx, rpc_rx) of its call
    rxCh,       \* the shared incoming channel behind MagicBall2::rx
    rxOpen,     \* FALSE once the sending half of the incoming channel is dropped
    wire,       \* every buffer given to sender.send, in order
    returned,   \* every return of rpc or recv, in order
    arrivals    \* number of messages that arrived from the hub

rpcVars == <<pc, callId, nIds, rpcCtl, rpcCtlHead, pending, replyCh, rxCh, rxOpen,
             wire, returned, arrivals>>

RpcInit ==
    /\ pc = [t \in Callers |-> "idle"]
    /\ callId = [t \in Callers |-> None]
    /\ nIds = 0
    /\ rpcCtl = <<>>
    /\ rpcCtlHead = 0
    /\ pending = <<>>
    /\ replyCh = [t \in Callers |-> <<>>]
    /\ rxCh = <<>>
    /\ rxOpen = TRUE
    /\ wire = <<>>
    /\ returned = <<>>
    /\ arrivals = 0

RpcAdd_NoPost(t) ==
    /\ pc[t] = "idle"
    /\ nIds < MaxRpcs
    /\ nIds' = nIds + 1
    /\ callId' = [callId EXCEPT ![t] = Some(UuidString(nIds + 1))]
    /\ replyCh' = [replyCh EXCEPT ![t] = <<>>]
    /\ pc' = [pc EXCEPT ![t] = "added"]
    /\ UNCHANGED <<rpcCtl, rpcCtlHead, pending, rxCh, rxOpen, wire, returned, arrivals>>

\* rpc, lines 134-153: a fresh correlation id, the private channel, AddRpc
RpcAdd(t) ==
    /\ pc[t] = "idle"
    /\ nIds < MaxRpcs
    /\ nIds' = nIds + 1
    /\ callId' = [callId EXCEPT ![t] = Some(UuidString(nIds + 1))]
    /\ replyCh' = [replyCh EXCEPT ![t] = <<>>]
    /\ rpcCtl' = Append(rpcCtl, AddRpc(UuidString(nIds + 1), t))
    /\ pc' = [pc EXCEPT ![t] = "added"]
    /\ UNCHANGED <<rpcCtlHead, pending, rxCh, rxOpen, wire, returned, arrivals>>

\* rpc, line 155: the request goes to the transport
RpcSend(t) ==
    /\ pc[t] = "added"
    /\ wire' = Append(wire, ProtoFrame(ProtoMeta(ClientAddr, PeerAddr, callId[t]), <<80>>))
    /\ pc' = [pc EXCEPT ![t] = "sent"]
    /\ UNCHANGED <<callId, nIds, rpcCtl, rpcCtlHead, pending, replyCh, rxCh, rxOpen,
                   returned, arrivals>>

\* the channel a waiting rpc call receives from: line 157 reads self.rx
RpcWaitsOn(t) == rxCh

\* what recv() on a channel with these contents yields, if it returns
\* now: the head, or an error once the channel is empty and disconnected
RecvResult(ch) ==
    IF ch # <<>>
    THEN [ok |-> TRUE, msg_meta |-> Head(ch).msg_meta,
          payload |-> SubSeq(Head(ch).data, Head(ch).len + 5, Len(Head(ch).data))]
    ELSE [ok |-> FALSE, msg_meta |-> ProtoMeta(<<>>, <<>>, None), payload |-> <<>>]

\* rpc, lines 157-167: the wait, then RemoveRpc and the return; on an error
\* of recv the `?` returns before RemoveRpc is sent
RpcReturn(t) ==
    /\ pc[t] = "sent"
    /\ RpcWaitsOn(t) # <<>> \/ ~rxOpen
    /\ LET res == RecvResult(RpcWaitsOn(t))
       IN /\ returned' = Append(returned, [thread |-> t, op |-> "rpc", id |-> callId[t],
                                           res |-> res])
          /\ rpcCtl' = IF res.ok THEN Append(rpcCtl, RemoveRpc(callId[t][1])) ELSE rpcCtl
    /\ rxCh' = IF rxCh # <<>> THEN Tail(rxCh) ELSE rxCh
    /\ pc' = [pc EXCEPT ![t] = "idle"]
    /\ callId' = [callId EXCEPT ![t] = None]
    /\ UNCHANGED <<nIds, rpcCtlHead, pending, replyCh, rxOpen, wire, arrivals>>

\* recv, lines 125-131
Recv(t) ==
    /\ pc[t] = "idle"
    /\ Cardinality({i \in 1..Len(returned) : returned[i].op = "recv"}) < MaxRecvs
    /\ rxCh # <<>> \/ ~rxOpen
    /\ returned' = Append(returned, [thread |-> t, op |-> "recv", id |-> None,
                                     res |-> RecvResult(rxCh)])
    /\ rxCh' = IF rxCh # <<>> THEN Tail(rxCh) ELSE rxCh
    /\ UNCHANGED <<pc, callId, nIds, rpcCtl, rpcCtlHead, pending, replyCh, rxOpen, wire,
                   arrivals>>

\* The reader of the connection (spec section 4.5): it takes AddRpc and
\* RemoveRpc from the control channel ...
ReaderCtl ==
    /\ rpcCtlHead < Len(rpcCtl)
    /\ LET m == rpcCtl[rpcCtlHead + 1]
       IN pending' = IF m.kind = "AddRpc"
                     THEN [i \in (DOMAIN pending) \cup {m.id} |->
                              IF i = m.id THEN m.reply ELSE pending[i]]
                     ELSE [i \in (DOMAIN pending) \ {m.id} |-> pending[i]]
    /\ rpcCtlHead' = rpcCtlHead + 1
    /\ UNCHANGED <<pc, callId, nIds, rpcCtl, replyCh, rxCh, rxOpen, wire, returned, arrivals>>

\* the messages the hub may deliver: an event, and responses to the ids in use
Arrivals ==
    {Incoming(ProtoMeta(PeerAddr, ClientAddr, None), <<69>>)}
    \cup {Incoming(ProtoMeta(PeerAddr, ClientAddr, Some(UuidString(n))), <<82>>) :
            n \in 1..MaxRpcs}

\* ... and dispatches each message from the hub: a response whose correlation
\* id is pending goes to that waiter's private channel and the entry is
\* removed; everything else goes to the shared incoming channel
ReaderNet(m) ==
    /\ rxOpen
    /\ arrivals < MaxArrivals
    /\ arrivals' = arrivals + 1
    /\ IF m.msg_meta.correlation_id # None /\ m.msg_meta.correlation_id[1] \in DOMAIN pending
       THEN LET id == m.msg_meta.correlation_id[1]
            IN /\ replyCh' = [replyCh EXCEPT ![pending[id]] = Append(@, m)]
               /\ pending' = [i \in (DOMAIN pending) \ {id} |-> pending[i]]
               /\ UNCHANGED rxCh
       ELSE /\ rxCh' = Append(rxCh, m)
            /\ UNCHANGED <<replyCh, pending>>
    /\ UNCHANGED <<pc, callId, nIds, rpcCtl, rpcCtlHead, rxOpen, wire, returned>>

\* the connection ends: the reader drops the sending half of the incoming channel
ReaderStop ==
    /\ rxOpen
    /\ rxOpen' = FALSE
    /\ UNCHANGED <<pc, callId, nIds, rpcCtl, rpcCtlHead, pending, replyCh, rxCh, wire,
                   returned, arrivals>>

\* ------------------------------------------------------------------------
\* The envelope helpers of sp-dto (lib.rs)
\* ------------------------------------------------------------------------

\* number of attachments of a frame
MaxAttachments == 2

\* further bytes that carry structure in the text encoding of the sp-dto meta
DtoCh == [colon |-> 58, slash |-> 47, zero |-> 48, event |-> 69, request |-> 81,
          ok |-> 79, err |-> 88]

Failed(val) == [ok |-> FALSE, val |-> val]
Decoded(val) == [ok |-> TRUE, val |-> val]

Key(action, service, domain) == [action |-> action, service |-> service, domain |-> domain]

EncodeKey(k) == k.action \o <<Ch.semi>> \o k.service \o <<Ch.semi>> \o k.domain

DecodeKey(s) ==
    LET parts == Split(s, Ch.semi)
    IN IF Len(parts) = 3
       THEN Decoded(Key(parts[1], parts[2], parts[3]))
       ELSE Failed(Key(<<>>, <<>>, <<>>))

\* RouteSpec
Simple == [tag |-> "Simple"]
Client(p) == [tag |-> "Client", p |-> p]

EncodeRouteSpec(s) == IF s.tag = "Simple" THEN <<>> ELSE EncodeParticipator(s.p)

DecodeRouteSpec(s) ==
    IF s = <<>> THEN Decoded(Simple)
    ELSE LET p == DecodeParticipator(s)
         IN IF p.ok THEN Decoded(Client(p.val)) ELSE Failed(Simple)

Route(source, spec, points) == [source |-> source, spec |-> spec, points |-> points]

EncodeRoute(r) ==
    EncodeParticipator(r.source) \o <<DtoCh.slash>> \o EncodeRouteSpec(r.spec)
        \o <<DtoCh.slash>> \o EncodePoints(r.points)

DecodeRoute(s) ==
    LET none == Route(Service(<<>>), Simple, <<>>)
        OfFields(src, spec, pts) ==
            IF src.ok /\ spec.ok /\ pts.ok
            THEN Decoded(Route(src.val, spec.val, pts.val))
            ELSE Failed(none)
        OfParts(parts) ==
            IF Len(parts) # 3 THEN Failed(none)
            ELSE OfFields(DecodeParticipator(parts[1]), DecodeRouteSpec(parts[2]),
                          DecodePoints(parts[3]))
    IN OfParts(Split(s, DtoCh.slash))

\* MsgType, with RpcResult inside RpcResponse
MsgTypes == {"Event", "RpcRequest", "RpcResponse(Ok)", "RpcResponse(Err)"}

EncodeMsgType(t) ==
    CASE t = "Event" -> <<DtoCh.event>>
      [] t = "RpcRequest" -> <<DtoCh.request>>
      [] t = "RpcResponse(Ok)" -> <<DtoCh.ok>>
      [] t = "RpcResponse(Err)" -> <<DtoCh.err>>

DecodeMsgType(s) ==
    IF \E t \in MsgTypes : EncodeMsgType(t) = s
    THEN Decoded(CHOOSE t \in MsgTypes : EncodeMsgType(t) = s)
    ELSE Failed("Event")

RECURSIVE EncodeNat(_)
\* a u64 as decimal text
EncodeNat(n) ==
    IF n < 10 THEN <<DtoCh.zero + n>>
    ELSE EncodeNat(n \div 10) \o <<DtoCh.zero + (n % 10)>>

RECURSIVE NatOf(_)
NatOf(s) ==
    IF s = <<>> THEN 0 ELSE NatOf(SubSeq(s, 1, Len(s) - 1)) * 10 + (s[Len(s)] - DtoCh.zero)

DecodeNat(s) ==
    IF /\ s # <<>>
       /\ \A i \in 1..Len(s) : s[i] >= DtoCh.zero /\ s[i] <= DtoCh.zero + 9
       /\ Len(s) = 1 \/ s[1] # DtoCh.zero
    THEN Decoded(NatOf(s))
    ELSE Failed(0)

Attachment(name, size) == [name |-> name, size |-> size]

EncodeAttachments(as) ==
    Flatten([i \in 1..Len(as) |->
                <<Ch.bar>> \o as[i].name \o <<DtoCh.colon>> \o EncodeNat(as[i].size)])

DecodeAttachment(s) ==
    LET parts == Split(s, DtoCh.colon)
    IN IF Len(parts) # 2 THEN Failed(Attachment(<<>>, 0))
       ELSE LET size == DecodeNat(parts[2])
            IN IF size.ok THEN Decoded(Attachment(parts[1], size.val))
               ELSE Failed(Attachment(<<>>, 0))

DecodeAttachments(s) ==
    IF s = <<>> THEN Decoded(<<>>)
    ELSE IF s[1] # Ch.bar THEN Failed(<<>>)
    ELSE LET parts == Split(Tail(s), Ch.bar)
             dec == [i \in 1..Len(parts) |-> DecodeAttachment(parts[i])]
         IN IF \A i \in 1..Len(parts) : dec[i].ok
            THEN Decoded([i \in 1..Len(parts) |-> dec[i].val])
            ELSE Failed(<<>>)

\* MsgMeta of sp-dto
MsgMeta(tx, key, msg_type, correlation_id, route, payload_size, auth_token, auth_data, attachments) ==
    [tx |-> tx, key |-> key, msg_type |-> msg_type, correlation_id |-> correlation_id,
     route |-> route, payload_size |-> payload_size, auth_token |-> auth_token,
     auth_data |-> auth_data, attachments |-> attachments]

NoMsgMeta ==
    MsgMeta(<<>>, Key(<<>>, <<>>, <<>>), "Event", <<>>, Route(Service(<<>>), Simple, <<>>),
            0, None, None, <<>>)

\* serde_json::to_vec(&msg_meta) for the MsgMeta of sp-dto
EncodeMsgMeta(m) ==
    <<Ch.lbrace>> \o m.tx
        \o <<Ch.comma>> \o EncodeKey(m.key)
        \o <<Ch.comma>> \o EncodeMsgType(m.msg_type)
        \o <<Ch.comma>> \o m.correlation_id
        \o <<Ch.comma>> \o EncodeRoute(m.route)
        \o <<Ch.comma>> \o EncodeNat(m.payload_size)
        \o <<Ch.comma>> \o EncodeOption(m.auth_token)
        \o <<Ch.comma>> \o EncodeOption(m.auth_data)
        \o <<Ch.comma>> \o EncodeAttachments(m.attachments)
        \o <<Ch.rbrace>>

\* serde_json::from_slice::<MsgMeta>(bytes) for the MsgMeta of sp-dto
DecodeMsgMeta(bytes) ==
    LET n == Len(bytes)
    IN IF n < 2 \/ bytes[1] # Ch.lbrace \/ bytes[n] # Ch.rbrace
       THEN Failed(NoMsgMeta)
       ELSE LET OfFields(tx, key, msg_type, correlation_id, route, payload_size, auth_token,
                         auth_data, attachments) ==
                    IF /\ key.ok /\ msg_type.ok /\ route.ok /\ payload_size.ok
                       /\ auth_token.ok /\ auth_data.ok /\ attachments.ok
                    THEN Decoded(MsgMeta(tx, key.val, msg_type.val, correlation_id, route.val,
                                         payload_size.val, auth_token.val, auth_data.val,
                                         attachments.val))
                    ELSE Failed(NoMsgMeta)
                OfParts(f) ==
                    IF Len(f) # 9
                    THEN Failed(NoMsgMeta)
                    ELSE OfFields(f[1], DecodeKey(f[2]), DecodeMsgType(f[3]), f[4],
                                  DecodeRoute(f[5]), DecodeNat(f[6]), DecodeOption(f[7]),
                                  DecodeOption(f[8]), DecodeAttachments(f[9]))
            IN OfParts(Split(SubSeq(bytes, 2, n - 1), Ch.comma))

\* serde_json::to_vec(&payload): the payload type is a string, written
\* between quotes
EncodePayload(payload) == <<Ch.quote>> \o payload \o <<Ch.quote>>

\* serde_json::from_slice::<T>(bytes)
DecodePayload(bytes) ==
    LET n == Len(bytes)
    IN IF /\ n >= 2
          /\ bytes[1] = Ch.quote
          /\ bytes[n] = Ch.quote
          /\ \A i \in 2..(n - 1) : bytes[i] # Ch.quote
       THEN Decoded(SubSeq(bytes, 2, n - 1))
       ELSE Failed(<<>>)

\* buf.put_u32(n as u32) and buf.get_u32(): big-endian
PutU32(n) == PutU32BE(n)
GetU32(data) == GetU32BE(data)

\* lines 585-591: the Attachment entries of a list of (name, bytes) pairs
AttachmentsMeta(attachments) ==
    [i \in 1..Len(attachments) |-> Attachment(attachments[i][1], Len(attachments[i][2]))]

\* lines 585-591: the bytes of the pairs, one after the other
AttachmentsPayload(attachments) ==
    Flatten([i \in 1..Len(attachments) |-> attachments[i][2]])

\* lines 579-616; correlation_id is the value of Uuid::new_v4()
rpc_dto_with_attachments(tx, key, payload, attachments, route, auth_token, auth_data, correlation_id) ==
    LET payload_bytes == EncodePayload(payload)
        msg_meta == MsgMeta(tx, key, "RpcRequest", correlation_id, route, Len(payload_bytes),
                            auth_token, auth_data, AttachmentsMeta(attachments))
        bytes == EncodeMsgMeta(msg_meta)
    IN PutU32(Len(bytes)) \o bytes \o payload_bytes \o AttachmentsPayload(attachments)

\* lines 382-408
event_dto(tx, key, payload, route, auth_token, auth_data, correlation_id) ==
    LET payload_bytes == EncodePayload(payload)
        msg_meta == MsgMeta(tx, key, "Event", correlation_id, route, Len(payload_bytes),
                            auth_token, auth_data, <<>>)
        bytes == EncodeMsgMeta(msg_meta)
    IN PutU32(Len(bytes)) \o bytes \o payload_bytes

\* MsgType::RpcResponse(result)
RpcResponse(result) == IF result = "Ok" THEN "RpcResponse(Ok)" ELSE "RpcResponse(Err)"

\* lines 532-552: returns the generated id together with the buffer;
\* correlation_id is the value of Uuid::new_v4()
rpc_dto_with_correlation_id(tx, key, payload, route, auth_token, auth_data, correlation_id) ==
    LET payload_bytes == EncodePayload(payload)
        msg_meta == MsgMeta(tx, key, "RpcRequest", correlation_id, route, Len(payload_bytes),
                            auth_token, auth_data, <<>>)
        bytes == EncodeMsgMeta(msg_meta)
    IN [correlation_id |-> correlation_id,
        buf |-> PutU32(Len(bytes)) \o bytes \o payload_bytes]

reply_to_rpc_dto_NewId(tx, key, correlation_id, payload, result, route, auth_token, auth_data) ==
    LET payload_bytes == EncodePayload(payload)
        msg_meta == MsgMeta(tx, key, RpcResponse(result), UuidString(0), route,
                            Len(payload_bytes), auth_token, auth_data, <<>>)
        bytes == EncodeMsgMeta(msg_meta)
    IN PutU32(Len(bytes)) \o bytes \o payload_bytes

\* lines 435-460: the id is an argument
reply_to_rpc_dto(tx, key, correlation_id, payload, result, route, auth_token, auth_data) ==
    LET payload_bytes == EncodePayload(payload)
        msg_meta == MsgMeta(tx, key, RpcResponse(result), correlation_id, route,
                            Len(payload_bytes), auth_token, auth_data, <<>>)
        bytes == EncodeMsgMeta(msg_meta)
    IN PutU32(Len(bytes)) \o bytes \o payload_bytes

\* lines 695-701 (and 621-627): the Attachment entries of a list of (name, size) pairs
DeclaredMeta(attachments) ==
    [i \in 1..Len(attachments) |-> Attachment(attachments[i][1], attachments[i][2])]

\* lines 694-723: the payload is raw bytes; the sizes of the attachments and
\* their bytes are two arguments.  Returns the buffer and the three sizes.
reply_to_rpc_dto2_sizes(tx, key, correlation_id, payload, attachments, attachments_data, result, route, auth_token, auth_data) ==
    LET msg_meta == MsgMeta(tx, key, RpcResponse(result), correlation_id, route, Len(payload),
                            auth_token, auth_data, DeclaredMeta(attachments))
        bytes == EncodeMsgMeta(msg_meta)
    IN [buf |-> PutU32(Len(bytes)) \o bytes \o payload \o attachments_data,
        msg_meta_size |-> Len(bytes),
        payload_size |-> msg_meta.payload_size,
        attachments_sizes |-> [i \in 1..Len(attachments) |-> msg_meta.attachments[i].size]]

\* lines 618-652: the meta declares the attachments, whose bytes are not part
\* of the buffer; correlation_id is the value of Uuid::new_v4()
rpc_dto_with_later_attachments(tx, key, payload, attachments, route, auth_token, auth_data, correlation_id) ==
    LET payload_bytes == EncodePayload(payload)
        msg_meta == MsgMeta(tx, key, "RpcRequest", correlation_id, route, Len(payload_bytes),
                            auth_token, auth_data, DeclaredMeta(attachments))
        bytes == EncodeMsgMeta(msg_meta)
    IN PutU32(Len(bytes)) \o bytes \o payload_bytes

\* the length prefix of data plus 4, as five big-endian bytes: the sum
\* without any carry lost
PrefixPlus4(data) ==
    LET b4 == data[4] + 4
        b3 == data[3] + (b4 \div 256)
        b2 == data[2] + (b3 \div 256)
        b1 == data[1] + (b2 \div 256)
    IN <<b1 \div 256, b1 % 256, b2 % 256, b3 % 256, b4 % 256>>

\* `buf.get_u32() as usize` and then `len + 4` (lines 903-905): usize has 64
\* bits, the carry out of the low 32 is kept
UsizeOffset(data) == PrefixPlus4(data)

\* `(len + 4) as usize` with len: u32 (lines 910-911, 933-934, 947-948,
\* 959-960): the sum is taken in 32 bits, and where overflow is not checked
\* the carry is dropped
U32Offset(data) == <<0>> \o Tail(PrefixPlus4(data))

\* `len + 4` with len: u32 overflows
Overflows(data) == PrefixPlus4(data)[1] # 0

\* an offset as a slice index into a buffer of n bytes: an offset of 2^31
\* or more is beyond any buffer of the model and is given as n + 1
IndexOf(offset, n) ==
    IF offset[1] # 0 \/ offset[2] >= 128
    THEN n + 1
    ELSE GetU32(Tail(offset))

\* msg_meta_offset of get_msg, get_msg_meta_and_payload, get_payload and
\* get_payload_with_attachments where overflow is not checked
MetaOffset(data) == IndexOf(U32Offset(data), Len(data))

RECURSIVE SumSizes(_, _)
\* the sizes of the first n attachments, added up
SumSizes(as, n) == IF n = 0 THEN 0 ELSE SumSizes(as, n - 1) + as[n].size

\* (mutant) every attachment is read from the end of the payload
AttachmentsOf_NoAdvance(msg_meta, data, payload_offset) ==
    [i \in 1..Len(msg_meta.attachments) |->
        <<msg_meta.attachments[i].name,
          SubSeq(data, payload_offset + 1, payload_offset + msg_meta.attachments[i].size)>>]

\* lines 920-926: the (name, bytes) pairs, each read where the one before ended
AttachmentsOf(msg_meta, data, payload_offset) ==
    [i \in 1..Len(msg_meta.attachments) |->
        <<msg_meta.attachments[i].name,
          SubSeq(data, payload_offset + SumSizes(msg_meta.attachments, i - 1) + 1,
                       payload_offset + SumSizes(msg_meta.attachments, i))>>]

\* what a decoding call yields: "Ok" with its values, "Err" (the serde
\* error), or "Panic" (a read or a slice out of range)
GetMsgResult(res, msg_meta, payload, attachments) ==
    [res |-> res, msg_meta |-> msg_meta, payload |-> payload, attachments |-> attachments]

\* lines 908-929
get_msg(data) ==
    IF Len(data) < 4
    THEN GetMsgResult("Panic", NoMsgMeta, <<>>, <<>>)
    ELSE LET \* lines 920-928: the attachments, once meta and payload are there
             WithPayload(msg_meta, payload_offset, payload) ==
                 IF ~payload.ok
                 THEN GetMsgResult("Err", NoMsgMeta, <<>>, <<>>)
                 ELSE IF payload_offset + SumSizes(msg_meta.attachments,
                                                   Len(msg_meta.attachments)) > Len(data)
                 THEN GetMsgResult("Panic", NoMsgMeta, <<>>, <<>>)
                 ELSE GetMsgResult("Ok", msg_meta, payload.val,
                                   AttachmentsOf(msg_meta, data, payload_offset))
             \* lines 915-917: the payload, behind the meta
             WithMeta(msg_meta_offset, msg_meta, payload_offset) ==
                 IF payload_offset > Len(data)
                 THEN GetMsgResult("Panic", NoMsgMeta, <<>>, <<>>)
                 ELSE WithPayload(msg_meta, payload_offset,
                                  DecodePayload(SubSeq(data, msg_meta_offset + 1,
                                                       payload_offset)))
             \* line 913: the meta, between the prefix and msg_meta_offset
             Decoding(msg_meta_offset, msg_meta) ==
                 IF ~msg_meta.ok
                 THEN GetMsgResult("Err", NoMsgMeta, <<>>, <<>>)
                 ELSE WithMeta(msg_meta_offset, msg_meta.val,
                               msg_meta_offset + msg_meta.val.payload_size)
             \* lines 910-911
             From(msg_meta_offset) ==
                 IF msg_meta_offset < 4 \/ msg_meta_offset > Len(data)
                 THEN GetMsgResult("Panic", NoMsgMeta, <<>>, <<>>)
                 ELSE Decoding(msg_meta_offset, DecodeMsgMeta(SubSeq(data, 5, msg_meta_offset)))
         IN From(MetaOffset(data))

\* `len + 4` with len: usize (lines 903-905)
MetaEnd(data) == IndexOf(UsizeOffset(data), Len(data))

\* Result<MsgMeta, Error>, or "Panic"
MetaResult(res, msg_meta) == [res |-> res, msg_meta |-> msg_meta]

\* (mutant) the meta is returned only if the payload decodes as well
get_msg_meta_ChecksPayload(data) ==
    IF Len(data) < 4
    THEN MetaResult("Panic", NoMsgMeta)
    ELSE IF MetaEnd(data) > Len(data)
    THEN MetaResult("Panic", NoMsgMeta)
    ELSE LET Checked(msg_meta, payload_offset) ==
                 IF /\ msg_meta.ok
                    /\ payload_offset <= Len(data)
                    /\ DecodePayload(SubSeq(data, MetaEnd(data) + 1, payload_offset)).ok
                 THEN MetaResult("Ok", msg_meta.val)
                 ELSE MetaResult("Err", NoMsgMeta)
             Decoding(msg_meta) ==
                 Checked(msg_meta, MetaEnd(data) + msg_meta.val.payload_size)
         IN Decoding(DecodeMsgMeta(SubSeq(data, 5, MetaEnd(data))))

\* lines 901-906
get_msg_meta(data) ==
    IF Len(data) < 4
    THEN MetaResult("Panic", NoMsgMeta)
    ELSE IF MetaEnd(data) > Len(data)
    THEN MetaResult("Panic", NoMsgMeta)
    ELSE LET Decoding(msg_meta) ==
                 IF msg_meta.ok
                 THEN MetaResult("Ok", msg_meta.val)
                 ELSE MetaResult("Err", NoMsgMeta)
         IN Decoding(DecodeMsgMeta(SubSeq(data, 5, MetaEnd(data))))

\* Result<(T, Vec<(String, Vec<u8>)>), Error>, or "Panic"
PayloadResult(res, payload, attachments) ==
    [res |-> res, payload |-> payload, attachments |-> attachments]

\* lines 957-976
get_payload_with_attachments(msg_meta, data) ==
    IF Len(data) < 4
    THEN PayloadResult("Panic", <<>>, <<>>)
    ELSE LET msg_meta_offset == MetaOffset(data)
             payload_offset == msg_meta_offset + msg_meta.payload_size
             payload == DecodePayload(SubSeq(data, msg_meta_offset + 1, payload_offset))
             attachments_end ==
                 payload_offset + SumSizes(msg_meta.attachments, Len(msg_meta.attachments))
         IN IF payload_offset > Len(data)
            THEN PayloadResult("Panic", <<>>, <<>>)
            ELSE IF ~payload.ok
            THEN PayloadResult("Err", <<>>, <<>>)
            ELSE IF attachments_end > Len(data)
            THEN PayloadResult("Panic", <<>>, <<>>)
            ELSE PayloadResult("Ok", payload.val, AttachmentsOf(msg_meta, data, payload_offset))

\* lines 945-955
get_payload(msg_meta, data) ==
    IF Len(data) < 4
    THEN PayloadResult("Panic", <<>>, <<>>)
    ELSE LET msg_meta_offset == MetaOffset(data)
             payload_offset == msg_meta_offset + msg_meta.payload_size
             payload == DecodePayload(SubSeq(data, msg_meta_offset + 1, payload_offset))
         IN IF payload_offset > Len(data)
            THEN PayloadResult("Panic", <<>>, <<>>)
            ELSE IF ~payload.ok
            THEN PayloadResult("Err", <<>>, <<>>)
            ELSE PayloadResult("Ok", payload.val, <<>>)

\* overflow of `len + 4` is checked in a build with debug assertions (it
\* panics) and wraps in one without
Builds == {"debug", "release"}

\* the functions that read a buffer with a meta the caller holds
Readers == {"get_payload", "get_payload_with_attachments"}

Read(fn, build, msg_meta, data) ==
    IF Len(data) >= 4 /\ build = "debug" /\ Overflows(data)
    THEN PayloadResult("Panic", <<>>, <<>>)
    ELSE IF fn = "get_payload"
    THEN get_payload(msg_meta, data)
    ELSE get_payload_with_attachments(msg_meta, data)

\* a receiver that peeks the meta and, having got one, reads the rest with it
PeekThenRead(data) ==
    LET Reading(peek) ==
            IF peek.res = "Ok"
            THEN get_payload_with_attachments(peek.msg_meta, data)
            ELSE PayloadResult(peek.res, <<>>, <<>>)
    IN Reading(get_msg_meta(data))

\* the decoding functions a receiver applies
Decoders == {"get_msg_meta", "get_msg", "get_payload_with_attachments"}

Decode(fn, data) ==
    CASE fn = "get_msg_meta" -> get_msg_meta(data)
      [] fn = "get_msg" -> get_msg(data)
      [] fn = "get_payload_with_attachments" -> PeekThenRead(data)

\* the buffers a receiver may be handed in place of buf: buf with one byte
\* after the meta changed, buf cut off (inside the prefix, inside the meta,
\* after the meta, before its last byte), buf with a byte after its end, and
\* buf with the length prefix 2^32 - 2
AlteredBuffers(buf) ==
    LET end == GetU32(buf) + 4
    IN {[buf EXCEPT ![i] = (buf[i] + 1) % 256] : i \in (end + 1)..Len(buf)}
       \cup {SubSeq(buf, 1, n) : n \in {2, end - 1, end, Len(buf) - 1} \ {Len(buf)}}
       \cup {buf \o <<0>>}
       \cup {<<255, 255, 255, 254>> \o SubSeq(buf, 5, Len(buf))}

\* the arguments the callers pass
DtoKeys == {Key(<<97>>, <<>>, <<>>)}

DtoRoutes ==
    { Route(Service(S1), Simple, <<Service(S2)>>),
      Route(Component(C1, None, Some(S1)), Client(Service(S1)), <<>>) }

DtoAuthTokens == {None, Some(<<116>>)}

DtoAuthData == {None, Some(<<100>>)}

DtoPayloads == {<<>>, <<80, 44>>}

\* attachment bytes are arbitrary: a quote, a comma and a brace among them
DtoAttachments == {<<<<97>>, <<>>>>, <<<<97>>, <<34>>>>, <<<<98>>, <<44, 125>>>>}

DtoAttachmentLists ==
    UNION {[1..n -> DtoAttachments] : n \in 0..MaxAttachments}

\* raw payloads, and what a caller passes as attachment sizes and bytes
DtoRawPayloads == {<<>>, <<80, 81>>}

Sized(name, size) == <<name, size>>

DtoDeclared ==
    { <<>>,
      <<Sized(<<97>>, 1)>>,
      <<Sized(<<97>>, 2)>>,
      <<Sized(<<97>>, 1), Sized(<<98>>, 2)>> }

DtoAttachmentsData == {<<>>, <<34>>, <<34, 44, 125>>}

\* the correlation id of a request received earlier
DtoRequestId == UuidString(7)

VARIABLES
    dtoCall,    \* the constructor call made and its arguments, if any
    dtoBuf,     \* the buffer that call returned
    dtoGot,     \* what get_msg returned for that buffer
    dtoIds,     \* number of UUIDs generated so far
    dtoMeta,    \* what get_msg_meta returned for that buffer
    dtoAlt,     \* a buffer that reached a receiver in place of the one built
    dtoAltRes,  \* the decoding function last applied to dtoAlt, and what it returned
    dtoRet,     \* the id rpc_dto_with_correlation_id returned beside the buffer
    dtoReply,   \* the reply_to_rpc_dto call made for the decoded request, and its buffer
    dtoReplyGot \* what get_msg returned for the reply buffer

\* the variables of the receiving side
dtoRecv == <<dtoMeta, dtoAlt, dtoAltRes>>

\* the variables of a request and its response
dtoRpc == <<dtoRet, dtoReply, dtoReplyGot>>

dtoVars == <<dtoCall, dtoBuf, dtoGot, dtoIds, dtoRecv, dtoRpc>>

DtoInit ==
    /\ dtoCall = None
    /\ dtoBuf = None
    /\ dtoGot = None
    /\ dtoIds = 0
    /\ dtoMeta = None
    /\ dtoAlt = None
    /\ dtoAltRes = None
    /\ dtoRet = None
    /\ dtoReply = None
    /\ dtoReplyGot = None

CallRpcDtoWithAttachments(tx, key, payload, attachments, route, auth_token, auth_data) ==
    /\ dtoCall = None
    /\ dtoIds' = dtoIds + 1
    /\ dtoCall' = Some([fn |-> "rpc_dto_with_attachments", tx |-> tx, key |-> key,
                        payload |-> payload, attachments |-> attachments, route |-> route,
                        auth_token |-> auth_token, auth_data |-> auth_data,
                        correlation_id |-> UuidString(dtoIds + 1)])
    /\ dtoBuf' = Some(rpc_dto_with_attachments(tx, key, payload, attachments, route,
                                               auth_token, auth_data,
                                               UuidString(dtoIds + 1)))
    /\ UNCHANGED <<dtoGot, dtoRecv, dtoRpc>>

CallEventDto(tx, key, payload, route, auth_token, auth_data) ==
    /\ dtoCall = None
    /\ dtoIds' = dtoIds + 1
    /\ dtoCall' = Some([fn |-> "event_dto", tx |-> tx, key |-> key,
                        payload |-> payload, attachments |-> <<>>, route |-> route,
                        auth_token |-> auth_token, auth_data |-> auth_data,
                        correlation_id |-> UuidString(dtoIds + 1)])
    /\ dtoBuf' = Some(event_dto(tx, key, payload, route, auth_token, auth_data,
                                UuidString(dtoIds + 1)))
    /\ UNCHANGED <<dtoGot, dtoRecv, dtoRpc>>

CallReplyToRpcDto2Sizes(tx, key, correlation_id, payload, attachments, attachments_data, result, route, auth_token, auth_data) ==
    /\ dtoCall = None
    /\ dtoCall' = Some([fn |-> "reply_to_rpc_dto2_sizes", tx |-> tx, key |-> key,
                        payload |-> payload, attachments |-> attachments,
                        attachments_data |-> attachments_data, result |-> result,
                        route |-> route, auth_token |-> auth_token, auth_data |-> auth_data,
                        correlation_id |-> correlation_id])
    /\ dtoBuf' = Some(reply_to_rpc_dto2_sizes(tx, key, correlation_id, payload, attachments,
                                              attachments_data, result, route, auth_token,
                                              auth_data).buf)
    /\ UNCHANGED <<dtoGot, dtoIds, dtoRecv, dtoRpc>>

CallRpcDtoWithLaterAttachments(tx, key, payload, attachments, route, auth_token, auth_data) ==
    /\ dtoCall = None
    /\ dtoIds' = dtoIds + 1
    /\ dtoCall' = Some([fn |-> "rpc_dto_with_later_attachments", tx |-> tx, key |-> key,
                        payload |-> payload, attachments |-> attachments, route |-> route,
                        auth_token |-> auth_token, auth_data |-> auth_data,
                        correlation_id |-> UuidString(dtoIds + 1)])
    /\ dtoBuf' = Some(rpc_dto_with_later_attachments(tx, key, payload, attachments, route,
                                                     auth_token, auth_data,
                                                     UuidString(dtoIds + 1)))
    /\ UNCHANGED <<dtoGot, dtoRecv, dtoRpc>>

CallRpcDtoWithCorrelationId(tx, key, payload, route, auth_token, auth_data) ==
    /\ dtoCall = None
    /\ dtoIds' = dtoIds + 1
    /\ dtoCall' = Some([fn |-> "rpc_dto_with_correlation_id", tx |-> tx, key |-> key,
                        payload |-> payload, attachments |-> <<>>, route |-> route,
                        auth_token |-> auth_token, auth_data |-> auth_data,
                        correlation_id |-> UuidString(dtoIds + 1)])
    /\ LET ret == rpc_dto_with_correlation_id(tx, key, payload, route, auth_token, auth_data,
                                              UuidString(dtoIds + 1))
       IN /\ dtoRet' = Some(ret.correlation_id)
          /\ dtoBuf' = Some(ret.buf)
    /\ UNCHANGED <<dtoGot, dtoRecv, dtoReply, dtoReplyGot>>

\* the service that decoded the request answers it with the id of its meta
CallReplyToRpcDto(tx, payload, result) ==
    /\ dtoRet # None
    /\ dtoGot # None
    /\ dtoGot[1].res = "Ok"
    /\ dtoReply = None
    /\ LET msg_meta == dtoGot[1].msg_meta
       IN dtoReply' = Some([result |-> result,
                            buf |-> reply_to_rpc_dto(tx, msg_meta.key, msg_meta.correlation_id,
                                                     payload, result, msg_meta.route,
                                                     None, None)])
    /\ UNCHANGED <<dtoCall, dtoBuf, dtoGot, dtoIds, dtoRecv, dtoRet, dtoReplyGot>>

\* the requester decodes the response
CallGetMsgOnReply ==
    /\ dtoReply # None
    /\ dtoReplyGot = None
    /\ dtoReplyGot' = Some(get_msg(dtoReply[1].buf))
    /\ UNCHANGED <<dtoCall, dtoBuf, dtoGot, dtoIds, dtoRecv, dtoRet, dtoReply>>

CallGetMsg ==
    /\ dtoBuf # None
    /\ dtoGot = None
    /\ dtoGot' = Some(get_msg(dtoBuf[1]))
    /\ UNCHANGED <<dtoCall, dtoBuf, dtoIds, dtoRecv, dtoRpc>>

CallGetMsgMeta ==
    /\ dtoBuf # None
    /\ dtoMeta = None
    /\ dtoMeta' = Some(get_msg_meta(dtoBuf[1]))
    /\ UNCHANGED <<dtoCall, dtoBuf, dtoGot, dtoIds, dtoAlt, dtoAltRes, dtoRpc>>

\* a receiver is handed some other buffer
Alter ==
    /\ dtoBuf # None
    /\ dtoAlt = None
    /\ \E data \in AlteredBuffers(dtoBuf[1]) : dtoAlt' = Some(data)
    /\ UNCHANGED <<dtoCall, dtoBuf, dtoGot, dtoIds, dtoMeta, dtoAltRes, dtoRpc>>

\* a decoding function is applied to that buffer
CallOnAltered(fn) ==
    /\ dtoAlt # None
    /\ dtoAltRes' = Some([fn |-> fn, res |-> Decode(fn, dtoAlt[1])])
    /\ UNCHANGED <<dtoCall, dtoBuf, dtoGot, dtoIds, dtoMeta, dtoAlt, dtoRpc>>

\* a receiver that holds the meta of the frame reads that buffer with it
CallReadOnAltered(fn, build) ==
    /\ dtoAlt # None
    /\ dtoMeta # None
    /\ dtoMeta[1].res = "Ok"
    /\ dtoAltRes' = Some([fn |-> fn, res |-> Read(fn, build, dtoMeta[1].msg_meta, dtoAlt[1])])
    /\ UNCHANGED <<dtoCall, dtoBuf, dtoGot, dtoIds, dtoMeta, dtoAlt, dtoRpc>>

\* ------------------------------------------------------------------------
\* sp-dto: the Subscribes index (src/sp-dto/src/lib.rs, lines 122-183)
\* ------------------------------------------------------------------------

\* a HashMap is a function on the set of its keys; HashMap::new()
EmptyMap == [x \in {} |-> <<>>]

\* Subscribes::ByAddr(event_subscribes, rpc_subscribes, rpc_response_subscribes)
ByAddr(event_subscribes, rpc_subscribes, rpc_response_subscribes) ==
    [tag |-> "ByAddr", event_subscribes |-> event_subscribes,
     rpc_subscribes |-> rpc_subscribes, rpc_response_subscribes |-> rpc_response_subscribes]

\* Subscribes::ByKey(event_subscribes, rpc_subscribes, rpc_response_subscribes)
ByKey(event_subscribes, rpc_subscribes, rpc_response_subscribes) ==
    [tag |-> "ByKey", event_subscribes |-> event_subscribes,
     rpc_subscribes |-> rpc_subscribes, rpc_response_subscribes |-> rpc_response_subscribes]

\* the orders in which into_iter() may yield the entries of a HashMap
IterOrders(map) ==
    {order \in [1..Cardinality(DOMAIN map) -> DOMAIN map] :
        \A i, j \in DOMAIN order : order[i] = order[j] => i = j}

PushAddr_Overwrite(res, key, addr) ==
    [k \in DOMAIN res \cup {key} |-> IF k = key THEN <<addr>> ELSE res[k]]

\* the match on res.get_mut(&key) (lines 137-144): push, or insert a new list
PushAddr(res, key, addr) ==
    IF key \in DOMAIN res
    THEN [res EXCEPT ![key] = Append(@, addr)]
    ELSE [k \in DOMAIN res \cup {key} |-> IF k = key THEN <<addr>> ELSE res[k]]

\* `for key in keys` (line 136) over the first n keys of one address
RECURSIVE PushKeys(_, _, _, _)
PushKeys(res, addr, keys, n) ==
    IF n = 0 THEN res ELSE PushAddr(PushKeys(res, addr, keys, n - 1), keys[n], addr)

\* `for (addr, keys) in subscribes.into_iter()` (line 135) over the first n
\* entries in iteration order
RECURSIVE TraverseMap(_, _, _)
TraverseMap(subscribes, order, n) ==
    IF n = 0
    THEN EmptyMap
    ELSE PushKeys(TraverseMap(subscribes, order, n - 1), order[n],
                  subscribes[order[n]], Len(subscribes[order[n]]))

\* lines 131-182; orders are the iteration orders of the three maps
traverse_to_keys(self, orders) ==
    IF self.tag = "ByAddr"
    THEN <<TraverseMap(self.event_subscribes, orders[1], Len(orders[1])),
           TraverseMap(self.rpc_subscribes, orders[2], Len(orders[2])),
           TraverseMap(self.rpc_response_subscribes, orders[3], Len(orders[3]))>>
    ELSE <<self.event_subscribes, self.rpc_subscribes, self.rpc_response_subscribes>>

\* inputs
KeyA == Key(<<97>>, <<>>, <<>>)
KeyB == Key(<<98>>, <<115>>, <<>>)

SubKeys == {KeyA, KeyB}
SubAddrs == {S1, S2}

\* HashMap<String, Vec<Key>> values: none, an empty list, one key, a key
\* twice, two addresses sharing a key
SubAddrMaps ==
    {EmptyMap,
     [a \in {S1} |-> <<>>],
     [a \in {S1} |-> <<KeyA>>],
     [a \in {S2} |-> <<KeyB, KeyB>>],
     [a \in {S1, S2} |-> IF a = S1 THEN <<KeyA, KeyB>> ELSE <<KeyA>>],
     [a \in {S1, S2} |-> IF a = S1 THEN <<KeyB>> ELSE <<>>]}

\* HashMap<Key, Vec<String>> values
SubKeyMaps ==
    {EmptyMap,
     [k \in {KeyA} |-> <<S2, S1>>],
     [k \in {KeyA, KeyB} |-> IF k = KeyA THEN <<S1>> ELSE <<>>]}

VARIABLES
    subIndex,   \* the Subscribes value built, if any
    subRes      \* what traverse_to_keys returned for it

subVars == <<subIndex, subRes>>

SubInit ==
    /\ subIndex = None
    /\ subRes = None

\* a Subscribes value is built
NewSubscribes(self) ==
    /\ subIndex = None
    /\ subIndex' = Some(self)
    /\ UNCHANGED subRes

CallTraverseToKeys ==
    /\ subIndex # None
    /\ subRes = None
    /\ LET self == subIndex[1]
       IN IF self.tag = "ByAddr"
          THEN \E o1 \in IterOrders(self.event_subscribes),
                  o2 \in IterOrders(self.rpc_subscribes),
                  o3 \in IterOrders(self.rpc_response_subscribes) :
                  subRes' = Some(traverse_to_keys(self, <<o1, o2, o3>>))
          ELSE subRes' = Some(traverse_to_keys(self, <<>>))
    /\ UNCHANGED subIndex

\* ------------------------------------------------------------------------
\* Specifications
\* ------------------------------------------------------------------------

vars == <<hubVars, rpcVars, dtoVars, subVars>>

\* the hub, with no client handle in use and no envelope built
Init == HubInit /\ RpcInit /\ DtoInit /\ SubInit

Next ==
    \/ \E c \in Conns, hs \in Handshakes : OnOpen(c, hs) /\ UNCHANGED <<rpcVars, dtoVars, subVars>>
    \/ \E c \in Conns, msg \in Messages : OnMessage(c, msg) /\ UNCHANGED <<rpcVars, dtoVars, subVars>>
    \/ \E c \in Conns : OnClose(c) /\ UNCHANGED <<rpcVars, dtoVars, subVars>>
    \/ ClientsThread /\ UNCHANGED <<rpcVars, dtoVars, subVars>>
    \/ \E addr \in {S2} : LinkPost(addr) /\ UNCHANGED <<rpcVars, dtoVars, subVars>>

Spec == Init /\ [][Next]_vars

\* the clients thread is a thread of its own that blocks only in rx.recv():
\* it takes a waiting control message sooner or later
FairSpec == Init /\ [][Next]_vars /\ WF_hubVars(ClientsThread)

\* one client connection and the threads that share its handle
RpcNext ==
    \/ \E t \in Callers : RpcAdd(t) /\ UNCHANGED <<hubVars, dtoVars, subVars>>
    \/ \E t \in Callers : RpcSend(t) /\ UNCHANGED <<hubVars, dtoVars, subVars>>
    \/ \E t \in Callers : RpcReturn(t) /\ UNCHANGED <<hubVars, dtoVars, subVars>>
    \/ \E t \in Callers : Recv(t) /\ UNCHANGED <<hubVars, dtoVars, subVars>>
    \/ ReaderCtl /\ UNCHANGED <<hubVars, dtoVars, subVars>>
    \/ \E m \in Arrivals : ReaderNet(m) /\ UNCHANGED <<hubVars, dtoVars, subVars>>
    \/ ReaderStop /\ UNCHANGED <<hubVars, dtoVars, subVars>>

\* the handle belongs to a client, not to a hub's link
RpcSpecInit == Init /\ link = FALSE

SpecRpc == RpcSpecInit /\ [][RpcNext]_vars

\* a caller of the envelope helpers: one constructor call, then get_msg
CodecNext ==
    \/ \E key \in DtoKeys, payload \in DtoPayloads, attachments \in DtoAttachmentLists,
          route \in DtoRoutes, auth_token \in DtoAuthTokens, auth_data \in DtoAuthData :
          CallRpcDtoWithAttachments(S1, key, payload, attachments, route, auth_token, auth_data)
              /\ UNCHANGED <<hubVars, rpcVars, subVars>>
    \/ \E key \in DtoKeys, payload \in DtoPayloads, route \in DtoRoutes,
          auth_token \in DtoAuthTokens, auth_data \in DtoAuthData :
          CallEventDto(S1, key, payload, route, auth_token, auth_data)
              /\ UNCHANGED <<hubVars, rpcVars, subVars>>
    \/ \E key \in DtoKeys, payload \in DtoRawPayloads, attachments \in DtoDeclared,
          attachments_data \in DtoAttachmentsData, result \in {"Ok", "Err"},
          route \in DtoRoutes :
          CallReplyToRpcDto2Sizes(S1, key, DtoRequestId, payload, attachments, attachments_data,
                                  result, route, None, None)
              /\ UNCHANGED <<hubVars, rpcVars, subVars>>
    \/ \E key \in DtoKeys, payload \in DtoPayloads, attachments \in DtoDeclared,
          route \in DtoRoutes :
          CallRpcDtoWithLaterAttachments(S1, key, payload, attachments, route, None, None)
              /\ UNCHANGED <<hubVars, rpcVars, subVars>>
    \/ \E key \in DtoKeys, payload \in DtoPayloads, route \in DtoRoutes :
          CallRpcDtoWithCorrelationId(S1, key, payload, route, None, None)
              /\ UNCHANGED <<hubVars, rpcVars, subVars>>
    \/ \E payload \in DtoPayloads, result \in {"Ok", "Err"} :
          CallReplyToRpcDto(S2, payload, result) /\ UNCHANGED <<hubVars, rpcVars, subVars>>
    \/ CallGetMsgOnReply /\ UNCHANGED <<hubVars, rpcVars, subVars>>
    \/ CallGetMsg /\ UNCHANGED <<hubVars, rpcVars, subVars>>
    \/ CallGetMsgMeta /\ UNCHANGED <<hubVars, rpcVars, subVars>>
    \/ Alter /\ UNCHANGED <<hubVars, rpcVars, subVars>>
    \/ \E fn \in Decoders : CallOnAltered(fn) /\ UNCHANGED <<hubVars, rpcVars, subVars>>
    \/ \E fn \in Readers, build \in Builds :
          CallReadOnAltered(fn, build) /\ UNCHANGED <<hubVars, rpcVars, subVars>>

CodecSpecInit == Init /\ link = FALSE

SpecCodec == CodecSpecInit /\ [][CodecNext]_vars

\* a holder of a Subscribes value: it is built, then traversed
SubscribesNext ==
    \/ \E ev, rpc, resp \in SubAddrMaps :
          NewSubscribes(ByAddr(ev, rpc, resp)) /\ UNCHANGED <<hubVars, rpcVars, dtoVars>>
    \/ \E ev, rpc, resp \in SubKeyMaps :
          NewSubscribes(ByKey(ev, rpc, resp)) /\ UNCHANGED <<hubVars, rpcVars, dtoVars>>
    \/ CallTraverseToKeys /\ UNCHANGED <<hubVars, rpcVars, dtoVars>>

SubscribesSpecInit == Init /\ link = FALSE

SpecSubscribes == SubscribesSpecInit /\ [][SubscribesNext]_vars

\* ------------------------------------------------------------------------
\* Reading the logs
\* ------------------------------------------------------------------------

\* the connection that received message k, and the message
FrameConn(k) == inbound[k].conn
FrameData(k) == inbound[k].msg.data

\* message k is a binary frame whose length prefix fits and whose meta decodes
WellFormed(k) ==
    /\ inbound[k].msg.type = "Binary"
    /\ Len(FrameData(k)) >= 4
    /\ GetU32BE(FrameData(k)) <= Len(FrameData(k)) - 4
    /\ DecodeMeta(SubSeq(FrameData(k), 5, GetU32BE(FrameData(k)) + 4)).ok

\* the meta of a well-formed frame, and what follows the meta
MetaOf(data) == DecodeMeta(SubSeq(data, 5, GetU32BE(data) + 4)).val
RestOf(data) == SubSeq(data, 5 + GetU32BE(data), Len(data))

KindOf(c) == IF conn[c].client_kind = None THEN "None" ELSE conn[c].client_kind[1]

IsPeer(c) == KindOf(c) \in {"Service", "Hub"}

\* the control messages and bridge sends that handling message k produced
SendMsgsOf(k) == {i \in 1..Len(ctl) : ctl[i].frame = k}
BridgeSendsOf(k) == {j \in 1..Len(bridgeOut) : bridgeOut[j].frame = k}

\* ------------------------------------------------------------------------
\* Claims
\* ------------------------------------------------------------------------

\* C1: every frame the clients thread hands to a send-handle for a SendMsg
\* that a Service or Hub connection's frame produced is, byte for byte, the
\* buffer that connection received.
C1_BytesPreserved ==
    \A i \in 1..Len(wsOut) :
        LET m == ctl[wsOut[i].ctlIdx]
        IN (m.frame # 0 /\ IsPeer(m.by)) =>
              /\ FrameConn(m.frame) = m.by
              /\ wsOut[i].data = FrameData(m.frame)

\* a frame of a peer has been forwarded to a destination's send-handle
C1_Witness ==
    \E i \in 1..Len(wsOut) :
        /\ ctl[wsOut[i].ctlIdx].frame # 0
        /\ IsPeer(ctl[wsOut[i].ctlIdx].by)
        /\ wsOut[i].to # ctl[wsOut[i].ctlIdx].by

\* C2 (as claimed): every response that rpc returns to its caller carries the
\* correlation id which that call generated and registered with AddRpc.
C2_RpcCorrelation ==
    \A i \in 1..Len(returned) :
        (returned[i].op = "rpc" /\ returned[i].res.ok) =>
            returned[i].res.msg_meta.correlation_id = returned[i].id

\* the first of the participators pts whose address is in table, if any
FirstReachable(pts, table) ==
    LET R == {j \in 1..Len(pts) : pts[j].addr \in DOMAIN table}
    IN IF R = {} THEN None
       ELSE Some(pts[CHOOSE j \in R : \A h \in R : j <= h].addr)

\* C3 (as claimed): the SendMsg enqueued for a frame of a Service or Hub
\* connection is addressed to the first participator of route.points whose
\* address is in the address table.
C3_DestIsFirstReachablePoint ==
    [][\A i \in (Len(ctl) + 1)..Len(ctl') :
          (ctl'[i].kind = "SendMsg" /\ ctl'[i].frame # 0) =>
             LET first == FirstReachable(MetaOf(inbound'[ctl'[i].frame].msg.data).points,
                                         clients)
             IN first # None => ctl'[i].addr = first[1]]_vars

\* C3 (amended): for every well-formed frame received from a Service or Hub
\* connection the hub enqueues exactly one control message, SendMsg(rx,
\* original bytes), rx being the rx field of the frame's meta, whatever
\* route.points holds and whether or not rx is in the address table.
C3_DestIsRx ==
    \A k \in 1..Len(inbound) :
        (IsPeer(FrameConn(k)) /\ WellFormed(k)) =>
            \E i \in SendMsgsOf(k) :
                /\ SendMsgsOf(k) = {i}
                /\ ctl[i] = SendMsg(MetaOf(FrameData(k)).rx, FrameData(k), FrameConn(k), k)

\* a peer's frame whose first route point is connected and is not its rx
C3_Witness ==
    \E k \in 1..Len(inbound) :
        /\ IsPeer(FrameConn(k)) /\ WellFormed(k)
        /\ LET m == MetaOf(FrameData(k))
           IN /\ m.points # <<>>
              /\ m.points[1].addr \in DOMAIN clients
              /\ m.points[1].addr # m.rx
              /\ \E i \in SendMsgsOf(k) : ctl[i].addr = m.rx

\* the connection was announced with AddClient at its handshake
Admitted(c) == \E i \in 1..Len(ctl) : ctl[i].kind = "AddClient" /\ ctl[i].sender = c

\* C4 (as claimed): once an admitted connection has closed, its handler has
\* sent RemoveClient(addr) on the control channel; a connection that was
\* never admitted sends none.
C4_CloseEmitsRemoveClient ==
    \A c \in Conns :
        /\ (conn[c].st = "closed" /\ Admitted(c)) =>
              \E i \in 1..Len(ctl) :
                  /\ ctl[i].kind = "RemoveClient"
                  /\ ctl[i].by = c
                  /\ ctl[i].addr = conn[c].addr[1]
        /\ ~Admitted(c) =>
              \A i \in 1..Len(ctl) : ~(ctl[i].kind = "RemoveClient" /\ ctl[i].by = c)

\* among the first n control messages, the last AddClient or RemoveClient
\* for address a is a RemoveClient
Removed(a, n) ==
    \E i \in 1..n :
        /\ ctl[i].kind = "RemoveClient" /\ ctl[i].addr = a
        /\ \A j \in (i + 1)..n : ~(ctl[j].kind = "AddClient" /\ ctl[j].addr = a)

\* C5 (as claimed): after the clients thread has processed RemoveClient(addr)
\* (and no AddClient(addr) since) the table holds no send-handle for addr,
\* and no SendMsg(addr, _) processed in that situation is sent.
C5_RemovedIsAbsent ==
    /\ \A a \in DOMAIN clients : ~Removed(a, ctlHead)
    /\ \A j \in 1..Len(wsOut) : ~Removed(ctl[wsOut[j].ctlIdx].addr, wsOut[j].ctlIdx - 1)

NoRecognizedHeader(hs) == hs.cookie = "absent" /\ hs.service = None /\ hs.hub = None

\* C6: a connection whose handshake carried neither Cookie nor Service nor
\* Hub has no role and no address, has sent no control message (no
\* AddClient, no SendMsg), and none of its frames went up the bridge.
C6_UnauthorizedSilent ==
    \A c \in Conns :
        (conn[c].st # "idle" /\ NoRecognizedHeader(conn[c].hs)) =>
            /\ conn[c].addr = None /\ conn[c].client_kind = None
            /\ \A i \in 1..Len(ctl) : ctl[i].by # c
            /\ \A j \in 1..Len(bridgeOut) : FrameConn(bridgeOut[j].frame) # c

\* a connection without recognized headers has received a well-formed frame
C6_Witness ==
    \E k \in 1..Len(inbound) :
        /\ NoRecognizedHeader(conn[FrameConn(k)].hs)
        /\ WellFormed(k)

\* C7: a frame produces at most one of {SendMsg, bridge send}; a frame of a
\* Service or Hub connection produces no bridge send, a frame of an App
\* connection no SendMsg.
C7_AtMostOneEffect ==
    \A k \in 1..Len(inbound) :
        LET nS == Cardinality(SendMsgsOf(k))
            nB == Cardinality(BridgeSendsOf(k))
        IN /\ nS + nB <= 1
           /\ IsPeer(FrameConn(k)) => nB = 0
           /\ KindOf(FrameConn(k)) = "App" => nS = 0

\* one frame has produced a SendMsg and another one a bridge send
C7_Witness ==
    /\ \E k \in 1..Len(inbound) : IsPeer(FrameConn(k)) /\ Cardinality(SendMsgsOf(k)) = 1
    /\ \E k \in 1..Len(inbound) :
          KindOf(FrameConn(k)) = "App" /\ Cardinality(BridgeSendsOf(k)) = 1

\* the clients thread receives a SendMsg whose address is not in the table
MissStep ==
    /\ ctlHead' # ctlHead
    /\ ctl[ctlHead + 1].kind = "SendMsg"
    /\ ctl[ctlHead + 1].addr \notin DOMAIN clients

\* C8: processing a SendMsg for an address that is not in the table sends
\* nothing to any connection nor up the bridge, leaves the table as it was
\* and consumes that one message; and the thread can always take the next
\* control message that is waiting.
C8_MissDiscarded ==
    /\ [][MissStep => /\ wsOut' = wsOut
                      /\ bridgeOut' = bridgeOut
                      /\ clients' = clients
                      /\ ctlHead' = ctlHead + 1]_vars
    /\ [](ctlHead < Len(ctl) => ENABLED ClientsThread)

\* a SendMsg was processed without a send, and a later message was processed
C8_Witness ==
    \E i \in 1..(ctlHead - 1) :
        /\ ctl[i].kind = "SendMsg"
        /\ \A a \in DOMAIN clients : a # ctl[i].addr
        /\ \A j \in 1..Len(wsOut) : wsOut[j].ctlIdx # i

\* C9: on a hub with a bridge every well-formed frame of an App connection
\* is sent up the bridge, and a buffer sent up the bridge starts with a
\* length prefix that is the length of the meta text following it; that
\* meta has tx = "AppHub"; and what follows the meta is what followed the
\* meta in the received frame.
C9_TunnelLayout ==
    /\ \A k \in 1..Len(inbound) :
          (link /\ KindOf(FrameConn(k)) = "App" /\ WellFormed(k)) => BridgeSendsOf(k) # {}
    /\ \A j \in 1..Len(bridgeOut) :
        LET out == bridgeOut[j].data
            k == bridgeOut[j].frame
            len == GetU32BE(out)
            dec == DecodeMeta(SubSeq(out, 5, len + 4))
        IN /\ link /\ KindOf(FrameConn(k)) = "App"
           /\ len <= Len(out) - 4
           /\ dec.ok
           /\ dec.val.tx = AppHub
           /\ len = Len(EncodeMeta(dec.val))
           /\ RestOf(out) = RestOf(FrameData(k))
           /\ Len(out) = 4 + len + Len(RestOf(FrameData(k)))

\* a frame went up the bridge with a length prefix other than the received one
C9_Witness ==
    \E j \in 1..Len(bridgeOut) :
        /\ GetU32BE(bridgeOut[j].data) # GetU32BE(FrameData(bridgeOut[j].frame))
        /\ RestOf(FrameData(bridgeOut[j].frame)) # <<>>

\* C10: in a tunneled frame a Component source carries as client_addr the
\* address of the connection the frame came from, which is the address of
\* that connection's AddClient; its other parts, and a Service source, are
\* those of the received frame.
C10_ClientAddr ==
    \A j \in 1..Len(bridgeOut) :
        LET c == FrameConn(bridgeOut[j].frame)
            old == MetaOf(FrameData(bridgeOut[j].frame)).source
            new == MetaOf(bridgeOut[j].data).source
        IN /\ conn[c].addr # None
           /\ \E i \in 1..Len(ctl) : ctl[i] = AddClient(conn[c].addr[1], c)
           /\ old.tag = "Component" =>
                 new = Component(old.addr, old.app_addr, Some(conn[c].addr[1]))
           /\ old.tag = "Service" => new = old

\* a frame with a Component source went up the bridge
C10_Witness ==
    \E j \in 1..Len(bridgeOut) :
        LET old == MetaOf(FrameData(bridgeOut[j].frame)).source
        IN old.tag = "Component" /\ old.client_addr = None

\* message msg is a binary frame whose length prefix exceeds the bytes after it
PrefixExceeds(msg) ==
    /\ msg.type = "Binary"
    /\ Len(msg.data) >= 4
    /\ GetU32BE(msg.data) > Len(msg.data) - 4

\* message msg is a binary buffer too short to hold a length prefix
TooShort(msg) == msg.type = "Binary" /\ Len(msg.data) < 4

\* the step hands a message to on_message of connection c
Handles(c) ==
    /\ Len(inbound') = Len(inbound) + 1
    /\ inbound'[Len(inbound')].conn = c

\* the message which the step hands to on_message
Handled == inbound'[Len(inbound')].msg

\* the sends to connections that handling message k led to
WsSendsOf(k) == {i \in 1..Len(wsOut) : ctl[wsOut[i].ctlIdx].frame = k}

\* C11 (as claimed): on a hub without a bridge, every frame received from an
\* App connection causes no SendMsg, no send to any connection and no bridge
\* send, and leaves the connection open with its role and address unchanged.
C11_AppFrameLeavesOpen ==
    /\ [](\A k \in 1..Len(inbound) :
            (~link /\ KindOf(FrameConn(k)) = "App") =>
                SendMsgsOf(k) = {} /\ WsSendsOf(k) = {} /\ BridgeSendsOf(k) = {})
    /\ [][\A c \in Conns :
            (~link /\ KindOf(c) = "App" /\ Handles(c)) =>
                /\ ctl' = ctl /\ bridgeOut' = bridgeOut /\ wsOut' = wsOut
                /\ listener' = "running"
                /\ conn'[c] = conn[c] /\ conn'[c].st = "open"]_vars

\* C11: on a hub without a bridge, no frame received from an App connection
\* causes a SendMsg, a send to any connection or a bridge send, and none
\* changes the connection's role or address; the connection stays open
\* unless the frame's length prefix exceeds the bytes after it (the handler
\* returns an error and the connection ends), and the listener keeps running
\* unless the buffer is shorter than the prefix (the handler panics).
C11_AppFrameDropped ==
    /\ [](\A k \in 1..Len(inbound) :
            (~link /\ KindOf(FrameConn(k)) = "App") =>
                SendMsgsOf(k) = {} /\ WsSendsOf(k) = {} /\ BridgeSendsOf(k) = {})
    /\ [][\A c \in Conns :
            (~link /\ KindOf(c) = "App" /\ Handles(c)) =>
                /\ ctl' = ctl /\ bridgeOut' = bridgeOut /\ wsOut' = wsOut
                /\ conn'[c].client_kind = conn[c].client_kind
                /\ conn'[c].addr = conn[c].addr
                /\ conn'[c].st = IF PrefixExceeds(Handled) THEN "failed" ELSE "open"
                /\ listener' = IF TooShort(Handled) THEN "panicked" ELSE "running"]_vars

\* on a hub without a bridge an App connection has received a well-formed
\* frame and is still open, and another message that ended a connection
C11_Witness ==
    /\ ~link
    /\ \E k \in 1..Len(inbound) :
          /\ KindOf(FrameConn(k)) = "App"
          /\ WellFormed(k)
          /\ conn[FrameConn(k)].st = "open"
    /\ \E k \in 1..Len(inbound) :
          /\ KindOf(FrameConn(k)) = "App"
          /\ PrefixExceeds(inbound[k].msg)
          /\ conn[FrameConn(k)].st = "failed"

\* C12: if one Service or Hub connection received f1 before f2, both were
\* addressed to the same destination and both were handed to a send-handle,
\* then f1 was handed over before f2.
C12_PerSenderOrder ==
    \A i \in 1..Len(wsOut) : \A j \in 1..Len(wsOut) :
        LET m1 == ctl[wsOut[i].ctlIdx]
            m2 == ctl[wsOut[j].ctlIdx]
        IN (/\ m1.kind = "SendMsg" /\ m2.kind = "SendMsg"
            /\ m1.by = m2.by /\ IsPeer(m1.by)
            /\ m1.addr = m2.addr
            /\ m1.frame < m2.frame) => i < j

\* two frames of one connection for one destination were both delivered, to
\* a connection other than the sender
C12_Witness ==
    \E i \in 1..Len(wsOut) : \E j \in 1..Len(wsOut) :
        LET m1 == ctl[wsOut[i].ctlIdx]
            m2 == ctl[wsOut[j].ctlIdx]
        IN /\ m1.by = m2.by /\ IsPeer(m1.by)
           /\ m1.addr = m2.addr
           /\ m1.frame < m2.frame
           /\ wsOut[i].data # wsOut[j].data
           /\ wsOut[i].to # m1.by

\* the headers Cookie, Service and Hub that a handshake carries
HeadersOf(hs) ==
    (IF hs.cookie # "absent" THEN {"Cookie"} ELSE {})
    \cup (IF hs.service # None THEN {"Service"} ELSE {})
    \cup (IF hs.hub # None THEN {"Hub"} ELSE {})

\* the AddClient messages that the handlers of connection c have sent
AddClientsOf(c) == {i \in 1..Len(ctl) : ctl[i].kind = "AddClient" /\ ctl[i].by = c}

RecognizedOf(hs) ==
    (IF hs.cookie = "addr" THEN {"Cookie"} ELSE {})
    \cup (IF hs.service # None THEN {"Service"} ELSE {})
    \cup (IF hs.hub # None THEN {"Hub"} ELSE {})

Processes(kinds) == ctlHead' = ctlHead + 1 /\ ctl[ctlHead + 1].kind \in kinds

\* C15: a step that changes the address table is the clients thread
\* processing an AddClient or a RemoveClient; processing a SendMsg, whether
\* its address is in the table or not, and every step of on_open,
\* on_message and on_close leave the table as it was.
C15_TableFrame ==
    [][/\ clients' # clients => Processes({"AddClient", "RemoveClient"})
       /\ Processes({"SendMsg"}) => clients' = clients
       /\ (conn' # conn \/ inbound' # inbound) => clients' = clients]_vars

\* the table holds two addresses, and a SendMsg that found its address and
\* one that did not have been processed
C15_Witness ==
    /\ Cardinality(DOMAIN clients) = 2
    /\ \E i \in 1..ctlHead :
          ctl[i].kind = "SendMsg" /\ \E j \in 1..Len(wsOut) : wsOut[j].ctlIdx = i
    /\ \E i \in 1..ctlHead :
          ctl[i].kind = "SendMsg" /\ \A j \in 1..Len(wsOut) : wsOut[j].ctlIdx # i

\* C16: a binary frame of an admitted connection whose length prefix
\* exceeds the bytes after it produces no SendMsg and no bridge send, and the
\* handler's error result has ended the connection.
C16_TruncatedIsError ==
    \A k \in 1..Len(inbound) :
        (Admitted(FrameConn(k)) /\ PrefixExceeds(inbound[k].msg)) =>
            /\ SendMsgsOf(k) = {}
            /\ BridgeSendsOf(k) = {}
            /\ conn[FrameConn(k)].st = "failed"

\* a Service or Hub connection has received a frame whose length prefix
\* exceeds the buffer
C16_Witness ==
    \E k \in 1..Len(inbound) :
        /\ IsPeer(FrameConn(k))
        /\ Admitted(FrameConn(k))
        /\ PrefixExceeds(inbound[k].msg)
        /\ GetU32BE(FrameData(k)) = 1000

\* C17 (as claimed): handling a frame of an admitted connection whose
\* length prefix exceeds the buffer drops the frame and keeps the connection
\* open.
C17_TruncatedKeepsOpen ==
    [][\A c \in Conns :
          (Admitted(c) /\ Handles(c) /\ PrefixExceeds(Handled)) =>
              /\ ctl' = ctl
              /\ bridgeOut' = bridgeOut
              /\ conn'[c].st = "open"]_vars

\* C17: after a frame of an admitted connection whose length prefix exceeds
\* the buffer, that connection is not open any more and none of its later
\* frames is handled.
C17_TruncatedEndsConnection ==
    \A k \in 1..Len(inbound) :
        (Admitted(FrameConn(k)) /\ PrefixExceeds(inbound[k].msg)) =>
            /\ conn[FrameConn(k)].st # "open"
            /\ \A h \in (k + 1)..Len(inbound) : FrameConn(h) # FrameConn(k)

\* after such a frame of one connection a well-formed frame of another
\* connection has been forwarded
C17_Witness ==
    \E k \in 1..Len(inbound) : \E h \in (k + 1)..Len(inbound) :
        /\ Admitted(FrameConn(k))
        /\ PrefixExceeds(inbound[k].msg)
        /\ IsPeer(FrameConn(h))
        /\ WellFormed(h)
        /\ WsSendsOf(h) # {}

\* message msg is a binary frame whose length prefix fits and whose meta
\* bytes do not decode
BadMeta(msg) ==
    /\ msg.type = "Binary"
    /\ Len(msg.data) >= 4
    /\ GetU32BE(msg.data) <= Len(msg.data) - 4
    /\ ~DecodeMeta(SubSeq(msg.data, 5, GetU32BE(msg.data) + 4)).ok

\* C18: handling a frame of an admitted connection whose meta bytes do not
\* decode sends no control message and nothing up the bridge and leaves
\* every connection, with its role and address, and the listener as they
\* were; a later well-formed frame of the same connection is forwarded as
\* usual: one SendMsg to its rx with the received bytes for a Service or
\* Hub, one bridge send for an App on a hub with a bridge.
C18_BadMetaDropped ==
    /\ [][\A c \in Conns :
            (Admitted(c) /\ Handles(c) /\ BadMeta(Handled)) =>
                /\ ctl' = ctl
                /\ bridgeOut' = bridgeOut
                /\ conn' = conn /\ conn'[c].st = "open"
                /\ listener' = listener]_vars
    /\ [](\A k \in 1..Len(inbound) : \A h \in (k + 1)..Len(inbound) :
            (/\ Admitted(FrameConn(k)) /\ BadMeta(inbound[k].msg)
             /\ FrameConn(h) = FrameConn(k) /\ WellFormed(h)) =>
                /\ SendMsgsOf(k) = {} /\ BridgeSendsOf(k) = {}
                /\ IsPeer(FrameConn(h)) =>
                      /\ Cardinality(SendMsgsOf(h)) = 1
                      /\ \A i \in SendMsgsOf(h) :
                            ctl[i] = SendMsg(MetaOf(FrameData(h)).rx, FrameData(h),
                                             FrameConn(h), h)
                /\ (KindOf(FrameConn(h)) = "App" /\ link) =>
                      Cardinality(BridgeSendsOf(h)) = 1)

\* a Service or Hub connection received a frame with undecodable meta and
\* then a well-formed frame, which was delivered
C18_Witness ==
    \E k \in 1..Len(inbound) : \E h \in (k + 1)..Len(inbound) :
        /\ IsPeer(FrameConn(k))
        /\ BadMeta(inbound[k].msg)
        /\ FrameConn(h) = FrameConn(k)
        /\ WellFormed(h)
        /\ WsSendsOf(h) # {}

\* C19: handling a text message, whatever the connection's role, sends no
\* control message and nothing up the bridge and changes no state of the
\* hub: connections, listener, table and sends stay as they were.
C19_TextIgnored ==
    [][\A c \in Conns :
          (Handles(c) /\ Handled.type = "Text") =>
              /\ ctl' = ctl
              /\ bridgeOut' = bridgeOut
              /\ wsOut' = wsOut
              /\ conn' = conn
              /\ listener' = listener
              /\ clients' = clients
              /\ ctlHead' = ctlHead
              /\ uuids' = uuids]_vars

\* a Service or Hub connection, and an App connection on a hub with a
\* bridge, have each received a text message holding a well-formed frame
C19_Witness ==
    /\ link
    /\ \E k \in 1..Len(inbound) :
          IsPeer(FrameConn(k)) /\ inbound[k].msg.type = "Text"
          /\ DecodeMeta(SubSeq(FrameData(k), 5, GetU32BE(FrameData(k)) + 4)).ok
    /\ \E k \in 1..Len(inbound) :
          KindOf(FrameConn(k)) = "App" /\ inbound[k].msg.type = "Text"

\* C20: get_msg applied to the buffer that rpc_dto_with_attachments or
\* event_dto returned succeeds and gives back the meta fields passed to the
\* constructor (tx, key, route, auth_token, auth_data), the constructor's
\* msg_type and correlation id, the payload size written, the payload, and
\* the (name, bytes) pairs in their order (none for event_dto).
C20_RoundTrip ==
    (dtoGot # None /\ dtoCall[1].fn \in {"rpc_dto_with_attachments", "event_dto"}) =>
        LET a == dtoCall[1]
            g == dtoGot[1]
        IN /\ g.res = "Ok"
           /\ g.msg_meta.tx = a.tx
           /\ g.msg_meta.key = a.key
           /\ g.msg_meta.msg_type = (IF a.fn = "event_dto" THEN "Event" ELSE "RpcRequest")
           /\ g.msg_meta.correlation_id = a.correlation_id
           /\ g.msg_meta.route = a.route
           /\ g.msg_meta.payload_size = Len(EncodePayload(a.payload))
           /\ g.msg_meta.auth_token = a.auth_token
           /\ g.msg_meta.auth_data = a.auth_data
           /\ g.msg_meta.attachments = AttachmentsMeta(a.attachments)
           /\ g.payload = a.payload
           /\ g.attachments = a.attachments

\* a frame with a payload and two attachments of different sizes, the first
\* of them not empty, has been decoded
C20_Witness ==
    /\ dtoGot # None
    /\ dtoCall[1].fn = "rpc_dto_with_attachments"
    /\ dtoCall[1].payload # <<>>
    /\ Len(dtoCall[1].attachments) = 2
    /\ Len(dtoCall[1].attachments[1][2]) = 1
    /\ Len(dtoCall[1].attachments[2][2]) = 2

\* the meta which the arguments of constructor call a describe
MetaOfCall(a) ==
    CASE a.fn = "event_dto" ->
            MsgMeta(a.tx, a.key, "Event", a.correlation_id, a.route,
                    Len(EncodePayload(a.payload)), a.auth_token, a.auth_data, <<>>)
      [] a.fn = "rpc_dto_with_attachments" ->
            MsgMeta(a.tx, a.key, "RpcRequest", a.correlation_id, a.route,
                    Len(EncodePayload(a.payload)), a.auth_token, a.auth_data,
                    AttachmentsMeta(a.attachments))
      [] a.fn = "rpc_dto_with_correlation_id" ->
            MsgMeta(a.tx, a.key, "RpcRequest", a.correlation_id, a.route,
                    Len(EncodePayload(a.payload)), a.auth_token, a.auth_data, <<>>)
      [] a.fn = "rpc_dto_with_later_attachments" ->
            MsgMeta(a.tx, a.key, "RpcRequest", a.correlation_id, a.route,
                    Len(EncodePayload(a.payload)), a.auth_token, a.auth_data,
                    DeclaredMeta(a.attachments))
      [] a.fn = "reply_to_rpc_dto2_sizes" ->
            MsgMeta(a.tx, a.key, RpcResponse(a.result), a.correlation_id, a.route,
                    Len(a.payload), a.auth_token, a.auth_data, DeclaredMeta(a.attachments))

\* buffer data holds the length prefix and the meta bytes of buffer buf
SamePrefix(data, buf) ==
    /\ Len(data) >= GetU32(buf) + 4
    /\ SubSeq(data, 1, GetU32(buf) + 4) = SubSeq(buf, 1, GetU32(buf) + 4)

\* C21: get_msg_meta applied to a constructed frame returns the meta its
\* constructor built; applied to a buffer that has the same length prefix
\* and meta bytes, whatever follows them (changed, missing or extra bytes, a
\* payload that does not decode), it returns the same.
C21_PeekMeta ==
    /\ dtoMeta # None => dtoMeta[1] = MetaResult("Ok", MetaOfCall(dtoCall[1]))
    /\ (/\ dtoMeta # None
        /\ dtoAltRes # None
        /\ dtoAltRes[1].fn = "get_msg_meta"
        /\ SamePrefix(dtoAlt[1], dtoBuf[1])) => dtoAltRes[1].res = dtoMeta[1]

\* get_msg_meta was applied to a frame with attachments and to a copy of it
\* with one byte changed so that get_msg does not decode it
C21_Witness ==
    /\ dtoMeta # None
    /\ dtoAltRes # None
    /\ dtoAltRes[1].fn = "get_msg_meta"
    /\ SamePrefix(dtoAlt[1], dtoBuf[1])
    /\ Len(dtoAlt[1]) = Len(dtoBuf[1])
    /\ dtoCall[1].attachments # <<>>
    /\ get_msg(dtoAlt[1]).res = "Err"

\* the payload bytes which constructor call a writes
PayloadBytesOfCall(a) ==
    IF a.fn = "reply_to_rpc_dto2_sizes" THEN a.payload ELSE EncodePayload(a.payload)

\* C22 (as claimed): in the frame of a constructor that appends attachment
\* bytes (rpc_dto_with_attachments, reply_to_rpc_dto2_sizes) payload_size is
\* the number of payload bytes written, and the bytes after the payload are
\* as many as the declared attachment sizes add up to.
C22_SizesMatchBytes ==
    (dtoBuf # None
     /\ dtoCall[1].fn \in {"rpc_dto_with_attachments", "reply_to_rpc_dto2_sizes"}) =>
        LET buf == dtoBuf[1]
            end == GetU32(buf) + 4
            m == DecodeMsgMeta(SubSeq(buf, 5, end)).val
        IN /\ m.payload_size = Len(PayloadBytesOfCall(dtoCall[1]))
           /\ Len(buf) - end - m.payload_size = SumSizes(m.attachments, Len(m.attachments))

\* C23 (as claimed): no decoding call aborts: get_msg_meta, get_msg and
\* get_payload_with_attachments return a value, Ok or an error, for every
\* buffer, also for one shorter than its length prefix states and for one
\* that lacks the payload or attachment bytes its meta declares.
C23_NoAbort ==
    /\ dtoGot # None => dtoGot[1].res \in {"Ok", "Err"}
    /\ dtoMeta # None => dtoMeta[1].res \in {"Ok", "Err"}
    /\ dtoAltRes # None => dtoAltRes[1].res.res \in {"Ok", "Err"}

\* the length a buffer must have for the sizes its own meta states
DeclaredLen(data, msg_meta) ==
    MetaEnd(data) + msg_meta.payload_size + SumSizes(msg_meta.attachments, Len(msg_meta.attachments))

\* C24 (as claimed): get_msg returns Ok only for a buffer whose length is
\* exactly 4 + meta_len + payload_size + the sum of the attachment sizes of
\* its meta; a buffer with bytes after the declared attachments is not
\* decoded successfully.
C24_ExactLength ==
    /\ (dtoGot # None /\ dtoGot[1].res = "Ok")
           => Len(dtoBuf[1]) = DeclaredLen(dtoBuf[1], dtoGot[1].msg_meta)
    /\ (dtoAltRes # None /\ dtoAltRes[1].fn = "get_msg" /\ dtoAltRes[1].res.res = "Ok")
           => Len(dtoAlt[1]) = DeclaredLen(dtoAlt[1], dtoAltRes[1].res.msg_meta)

\* C25: the id rpc_dto_with_correlation_id returns is the correlation_id of
\* the meta of the frame it returns, and a response built by reply_to_rpc_dto
\* for the decoded request carries that same id with msg_type RpcResponse.
C25_SameCorrelationId ==
    /\ (dtoRet # None /\ dtoMeta # None)
           => /\ dtoMeta[1].res = "Ok"
              /\ dtoMeta[1].msg_meta.correlation_id = dtoRet[1]
    /\ (dtoRet # None /\ dtoGot # None)
           => /\ dtoGot[1].res = "Ok"
              /\ dtoGot[1].msg_meta.correlation_id = dtoRet[1]
    /\ dtoReplyGot # None
           => /\ dtoReplyGot[1].res = "Ok"
              /\ dtoReplyGot[1].msg_meta.correlation_id = dtoRet[1]
              /\ dtoReplyGot[1].msg_meta.msg_type = RpcResponse(dtoReply[1].result)
              /\ dtoReplyGot[1].msg_meta.msg_type \in {"RpcResponse(Ok)", "RpcResponse(Err)"}

C25_Witness ==
    /\ dtoRet # None
    /\ dtoMeta # None
    /\ dtoReplyGot # None
    /\ dtoReplyGot[1].msg_meta.correlation_id = dtoRet[1]
    /\ dtoReply[1].result = "Err"

\* number of occurrences of x in a list
Count(list, x) == Cardinality({i \in DOMAIN list : list[i] = x})

\* the three maps of an index, in the order of the result
MapsOf(self) == <<self.event_subscribes, self.rpc_subscribes, self.rpc_response_subscribes>>

\* a map of lists up to the ordering of each list
UpToOrdering(map, elems) == [x \in DOMAIN map |-> [e \in elems |-> Count(map[x], e)]]

\* a by-key map turned back by address: each address listed somewhere, with
\* the keys it is listed under
InvertByAddr(res) ==
    LET addrs == {a \in SubAddrs : \E k \in DOMAIN res : Count(res[k], a) > 0}
    IN [a \in addrs |-> [k \in SubKeys |-> IF k \in DOMAIN res THEN Count(res[k], a) ELSE 0]]

\* the entries of a by-address map whose key list is not empty
NonEmptyEntries(map) == [a \in {x \in DOMAIN map : map[x] # <<>>} |-> map[a]]

\* in each category, a is listed under k exactly when k is in a's key list
ListedExactly(self, res) ==
    \A c \in 1..3 : \A a \in SubAddrs, k \in SubKeys :
        (k \in DOMAIN res[c] /\ Count(res[c][k], a) > 0)
            <=> (a \in DOMAIN MapsOf(self)[c] /\ Count(MapsOf(self)[c][a], k) > 0)

\* C26 (as claimed): on a ByAddr index traverse_to_keys lists a under k,
\* per category, exactly when k is in a's key list; on a ByKey index it
\* returns the three maps unchanged; and turning the result back by address
\* gives the original index up to ordering.
C26_InversionRestores ==
    subRes # None =>
        IF subIndex[1].tag = "ByAddr"
        THEN /\ ListedExactly(subIndex[1], subRes[1])
             /\ \A c \in 1..3 :
                    InvertByAddr(subRes[1][c]) = UpToOrdering(MapsOf(subIndex[1])[c], SubKeys)
        ELSE subRes[1] = MapsOf(subIndex[1])

\* C26 (amended): as above, except that turning the result back by address
\* gives the entries of the original index whose key list is not empty: an
\* address with an empty key list appears nowhere in the result.
C26_InversionOfNonEmpty ==
    subRes # None =>
        IF subIndex[1].tag = "ByAddr"
        THEN /\ ListedExactly(subIndex[1], subRes[1])
             /\ \A c \in 1..3 :
                    /\ InvertByAddr(subRes[1][c])
                           = UpToOrdering(NonEmptyEntries(MapsOf(subIndex[1])[c]), SubKeys)
                    /\ \A a \in DOMAIN MapsOf(subIndex[1])[c] :
                           MapsOf(subIndex[1])[c][a] = <<>> => a \notin DOMAIN InvertByAddr(subRes[1][c])
        ELSE subRes[1] = MapsOf(subIndex[1])

\* a ByAddr index was traversed in which two addresses share a key in one
\* category, an address has an empty key list in another, and the third differs
C26_Witness ==
    /\ subRes # None
    /\ subIndex[1].tag = "ByAddr"
    /\ subIndex[1].event_subscribes = [a \in {S1, S2} |-> IF a = S1 THEN <<KeyA, KeyB>> ELSE <<KeyA>>]
    /\ subIndex[1].rpc_subscribes = [a \in {S1} |-> <<>>]
    /\ subIndex[1].rpc_response_subscribes = [a \in {S2} |-> <<KeyB, KeyB>>]
    /\ subRes[1][1][KeyA] = <<S2, S1>>
    /\ subRes[1][2] = EmptyMap

\* the request frame rpc builds for correlation id UuidString(n)
RequestFrame(n) == ProtoFrame(ProtoMeta(ClientAddr, PeerAddr, Some(UuidString(n))), <<80>>)

\* AddRpc(id, _) is among the first n control messages posted
AddPosted(id, n) == \E j \in 1..n : rpcCtl[j].kind = "AddRpc" /\ rpcCtl[j].id = id

\* C27: an rpc call posts AddRpc(id, reply_tx) before it gives the request
\* frame to the transport: every request on the wire, and so every id a
\* response can come back for, has its AddRpc on the control channel, and
\* the step that writes the frame leaves the control channel as it is.
C27_AddBeforeSend ==
    /\ [](\A i \in 1..Len(wire) : \E n \in 1..MaxRpcs :
              wire[i] = RequestFrame(n) /\ AddPosted(UuidString(n), Len(rpcCtl)))
    /\ [][Len(wire') > Len(wire)
              => /\ rpcCtl' = rpcCtl
                 /\ \E t \in Callers :
                        /\ callId[t] # None
                        /\ AddPosted(callId[t][1], Len(rpcCtl))
                        /\ wire' = Append(wire, ProtoFrame(ProtoMeta(ClientAddr, PeerAddr, callId[t]), <<80>>))]_vars

\* a request was written and its response was handed to the caller's own channel
C27_Witness ==
    /\ Len(wire) >= 1
    /\ \E t \in Callers : replyCh[t] # <<>> /\ callId[t] # None
                          /\ replyCh[t][1].msg_meta.correlation_id = callId[t]

\* C28 (as claimed): every rpc call that posted AddRpc(id, _) has posted
\* RemoveRpc(id) when it returns, whether it got a message or the wait failed.
C28_RemoveOnEveryReturn ==
    \A i \in 1..Len(returned) :
        returned[i].op = "rpc"
            => /\ AddPosted(returned[i].id[1], Len(rpcCtl))
               /\ \E j \in 1..Len(rpcCtl) :
                      rpcCtl[j].kind = "RemoveRpc" /\ rpcCtl[j].id = returned[i].id[1]

\* C29 (as claimed): an rpc call takes nothing from the shared incoming
\* channel: the step in which a call returns leaves that channel as it is,
\* so what the reader put there is still there for a later recv.
C29_RpcLeavesShared ==
    [][(\E t \in Callers : pc[t] = "sent" /\ pc'[t] = "idle") => rxCh' = rxCh]_vars

\* C30: the meta of a tunneled frame differs from the received meta in tx
\* and, for a Component source, in the source's client_addr, and in nothing
\* else: rx, the route points, the remaining fields (key, msg_type,
\* correlation_id, payload_size, auth fields, attachments) and the other
\* parts of the source are those of the received meta.
C30_TunnelKeepsFields ==
    \A j \in 1..Len(bridgeOut) :
        LET old == MetaOf(FrameData(bridgeOut[j].frame))
            new == MetaOf(bridgeOut[j].data)
        IN /\ DecodeMeta(SubSeq(bridgeOut[j].data, 5, GetU32BE(bridgeOut[j].data) + 4)).ok
           /\ new.rx = old.rx
           /\ new.points = old.points
           /\ new.other = old.other
           /\ [new EXCEPT !.tx = old.tx,
                          !.source = IF @.tag = "Component"
                                     THEN [@ EXCEPT !.client_addr = old.source.client_addr]
                                     ELSE @] = old

\* two frames went up the bridge, one with a Component source and one with a
\* Service source, both with route points and further fields, and tx changed
C30_Witness ==
    \E i, j \in 1..Len(bridgeOut) :
        LET oldi == MetaOf(FrameData(bridgeOut[i].frame))
            oldj == MetaOf(FrameData(bridgeOut[j].frame))
        IN /\ oldi.source.tag = "Component"
           /\ oldj.source.tag = "Service"
           /\ oldi.other # <<>> /\ oldi.points # <<>>
           /\ oldj.other # <<>> /\ oldj.points # <<>>
           /\ MetaOf(bridgeOut[i].data).tx # oldi.tx
           /\ MetaOf(bridgeOut[j].data).other = oldj.other

\* control message i is a SendMsg posted by the handler of a connection
SentByConn(i) == ctl[i].kind = "SendMsg" /\ ctl[i].by # 0

\* before control message i, the AddClient of connection c's handshake for
\* its address was posted, and no RemoveClient for that address after it
AddedBefore(c, i) ==
    \E j \in 1..(i - 1) :
        /\ ctl[j] = AddClient(conn[c].addr[1], c)
        /\ \A r \in (j + 1)..(i - 1) :
               ~(ctl[r].kind = "RemoveClient" /\ ctl[r].addr = conn[c].addr[1])

\* C31: when the clients thread takes a SendMsg that connection c posted,
\* it has already taken the AddClient of c's handshake, and c's address is
\* in the address table, unless a RemoveClient for it was taken in between.
C31_SenderIsKnown ==
    [][(ctlHead' = ctlHead + 1 /\ SentByConn(ctlHead + 1))
          => LET c == ctl[ctlHead + 1].by
             IN /\ conn[c].addr # None
                /\ \E j \in 1..ctlHead : ctl[j] = AddClient(conn[c].addr[1], c)
                /\ (AddedBefore(c, ctlHead + 1) => conn[c].addr[1] \in DOMAIN clients)]_vars

\* a SendMsg of a connection was taken after a RemoveClient for the
\* sender's address, and another one for an address other than the sender's
C31_Witness ==
    /\ \E i \in 1..ctlHead :
          /\ SentByConn(i)
          /\ conn[ctl[i].by].addr[1] \in DOMAIN clients
          /\ \E r \in 1..(i - 1) : ctl[r].kind = "RemoveClient" /\ ctl[r].addr = conn[ctl[i].by].addr[1]
    /\ \E i \in 1..ctlHead : SentByConn(i) /\ ctl[i].addr # conn[ctl[i].by].addr[1]

\* the AddClient messages for addr among the first n control messages
AddsFor(addr, n) == {a \in 1..n : ctl[a].kind = "AddClient" /\ ctl[a].addr = addr}

\* the last of a non-empty set of indices
Last(idx) == CHOOSE a \in idx : \A b \in idx : b <= a

\* C32: a frame the clients thread sends for a SendMsg goes to the
\* connection of the last AddClient for that address taken before it, and to
\* no other: when two connections were admitted with one address, the
\* earlier one gets nothing any more; a SendMsg is sent at most once.
C32_LaterReplaces ==
    /\ \A j \in 1..Len(wsOut) :
          LET i == wsOut[j].ctlIdx
              adds == AddsFor(ctl[i].addr, i - 1)
          IN /\ ctl[i].kind = "SendMsg"
             /\ adds # {}
             /\ wsOut[j].to = ctl[Last(adds)].sender
    /\ \A j1, j2 \in 1..Len(wsOut) : wsOut[j1].ctlIdx = wsOut[j2].ctlIdx => j1 = j2
    /\ \A addr \in DOMAIN clients :
          AddsFor(addr, ctlHead) # {} /\ clients[addr] = ctl[Last(AddsFor(addr, ctlHead))].sender

\* two connections were admitted with one address, and a frame for that
\* address was sent after both AddClient were taken
C32_Witness ==
    \E j \in 1..Len(wsOut) :
        LET i == wsOut[j].ctlIdx
        IN \E a1, a2 \in AddsFor(ctl[i].addr, i - 1) :
              /\ a1 < a2
              /\ ctl[a1].sender # ctl[a2].sender
              /\ wsOut[j].to = ctl[a2].sender

\* C33: the role and the address of a connection change only in the step
\* of its handshake: a step that hands it a message, closes it, or is taken
\* by another connection or thread, leaves both as they were; a connection
\* left without address by its handshake never has one.
C33_RoleSetAtHandshake ==
    [][\A c \in Conns :
          /\ (conn'[c].client_kind # conn[c].client_kind \/ conn'[c].addr # conn[c].addr)
                 => /\ conn[c].st = "idle"
                    /\ conn'[c].st = "open"
                    /\ inbound' = inbound
          /\ (conn[c].st # "idle" /\ conn[c].addr = None)
                 => /\ conn'[c].addr = None
                    /\ \A i \in 1..Len(ctl') : ctl'[i].kind = "AddClient" => ctl'[i].sender # c]_vars

\* an admitted connection and one without address have each received a
\* well-formed frame
C33_Witness ==
    /\ \E k \in 1..Len(inbound) : WellFormed(k) /\ conn[FrameConn(k)].addr = None
    /\ \E k \in 1..Len(inbound) : WellFormed(k) /\ conn[FrameConn(k)].addr # None

\* the clients thread takes a SendMsg whose address is in the table
HitStep ==
    /\ ctlHead' = ctlHead + 1
    /\ ctl[ctlHead + 1].kind = "SendMsg"
    /\ ctl[ctlHead + 1].addr \in DOMAIN clients

\* C34: with the clients thread scheduled fairly, whenever control
\* messages wait the thread comes to have taken all that were posted,
\* whatever is among them (a SendMsg for an unknown address, an AddClient, a
\* RemoveClient); it takes them one at a time in the order posted, so every
\* SendMsg posted is taken.  A SendMsg whose address is in the table when
\* it is taken is handed, with its frame, to the sender the table holds for
\* that address.
C34_EveryMessageTaken ==
    /\ (ctlHead < Len(ctl)) ~> (ctlHead = Len(ctl))
    /\ [][ctlHead' # ctlHead => ctlHead' = ctlHead + 1 /\ ctl' = ctl]_vars
    /\ [][HitStep => wsOut' = Append(wsOut, [to |-> clients[ctl[ctlHead + 1].addr],
                                             data |-> ctl[ctlHead + 1].data,
                                             ctlIdx |-> ctlHead + 1])]_vars

\* a SendMsg was taken and sent after a SendMsg for an unknown address, an
\* AddClient and a RemoveClient had been taken
C34_Witness ==
    \E i \in 1..ctlHead :
        /\ ctl[i].kind = "SendMsg"
        /\ \E j \in 1..Len(wsOut) : wsOut[j].ctlIdx = i
        /\ \E m \in 1..(i - 1) :
              ctl[m].kind = "SendMsg" /\ \A j \in 1..Len(wsOut) : wsOut[j].ctlIdx # m
        /\ \E m \in 1..(i - 1) : ctl[m].kind = "RemoveClient"
        /\ \E m \in 1..(i - 1) : ctl[m].kind = "AddClient"

\* C35 (as claimed): a binary message of fewer than 4 bytes from an admitted
\* connection is handled as a truncated frame: the handler returns its
\* error, which ends that connection, nothing is forwarded, and the listener
\* keeps running.
C35_ShortIsTruncated ==
    \A k \in 1..Len(inbound) :
        (TooShort(inbound[k].msg) /\ conn[FrameConn(k)].addr # None
                                  /\ conn[FrameConn(k)].client_kind # None)
            => /\ listener = "running"
               /\ conn[FrameConn(k)].st = "failed"
               /\ SendMsgsOf(k) = {}
               /\ BridgeSendsOf(k) = {}

\* C36 (as claimed): the functions that read after the meta take the end
\* of the meta to be 4 + meta_len, the offset get_msg_meta uses, for every
\* length prefix: the sum taken in 32 bits is the sum taken without loss,
\* and a read whose payload would lie past the end of the buffer from that
\* offset is out of range, as in get_msg_meta.
C36_SameOffset ==
    (dtoAltRes # None /\ Len(dtoAlt[1]) >= 4 /\ dtoAltRes[1].fn # "get_msg_meta")
        => /\ U32Offset(dtoAlt[1]) = UsizeOffset(dtoAlt[1])
           /\ MetaOffset(dtoAlt[1]) = MetaEnd(dtoAlt[1])
           /\ (dtoAltRes[1].fn \in Readers /\ MetaEnd(dtoAlt[1]) > Len(dtoAlt[1]))
                  => dtoAltRes[1].res.res = "Panic"

====
